---- MODULE Spec2Model ----
(***************************************************************************)
(* Marker-based code removal: the batch transform of                       *)
(* vite-plugin-remove-code (and its esbuild twin), and the editor commands *)
(* of the code-removal-comments extension that write and erase markers.    *)
(*                                                                         *)
(* Text is a sequence of one-character strings.  The marker vocabulary is  *)
(* abstracted to letters: R, S, E for BUILD_REMOVE, _START, _END, so that  *)
(* the default line marker R is a prefix of the default start token RS;    *)
(* D, V, L for the custom DEBUG_, DEV_ and REMOVE_LINE tokens of the       *)
(* README; P, V, T, D for the PRODUCTION_ONLY_, DEV_ONLY_, TEST_ONLY_ and   *)
(* DEBUG_ families of the extension.  "x" stands for any other code        *)
(* character.                                                              *)
(***************************************************************************)
EXTENDS Integers, Sequences, FiniteSets, TLC

VARIABLES
    env,        \* process.env: [NODE_ENV, VITEST]
    predicate,  \* what options.isTargetEnvironment() answers when called now
    config,     \* the plugin instance's config ({...defaultOptions, ...options})
    host,       \* which handler served the last call: "vite" or "esbuild"
    code,       \* the text given to the last call
    id,         \* the file id / path given to the last call
    result,     \* what the last call returned
    stages,     \* transformedCode after each of the four steps of the last call
    gate,       \* the local shouldRemove of the last call: "true", "false",
                \* or "skipped" when a file filter returned first
    predCalls,  \* how often the last call invoked isTargetEnvironment
    fresh,      \* env and predicate are still as they were at the last call
    calls,      \* number of calls served by this plugin instance
    previous,   \* the call before the last: [kind, code, id]
    reapplied,  \* the last call was given the text the call before returned
    editor,     \* vscode.window.activeTextEditor: [open, document, selection]
    settings,   \* the codeRemoval section of the workspace configuration
    issued,     \* what the last command did: [command, n, selected, edits,
                \* messages]
    opened      \* the editor as it was before the first command

vars == <<env, predicate, config, host, code, id, result, stages, gate,
          predCalls, fresh, calls, previous, reapplied,
          editor, settings, issued, opened>>

pluginVars == <<env, predicate, config, host, code, id, result, stages, gate,
                predCalls, fresh, calls, previous, reapplied>>

editorVars == <<editor, settings, issued, opened>>

\* ------------------------------------------------------------------ bounds
MaxPieces == 3       \* fragments in a text over the full vocabulary
MaxLinePieces == 6   \* fragments in a text of code lines and line markers
MaxSpacePieces == 5  \* fragments in a text of white space and line markers
MaxPairPieces == 5   \* fragments in a text of code and one kind of marker pair
MaxOuterPieces == 2  \* fragments around a marker pair that sits inside them
MaxCalls == 2        \* calls one plugin instance serves
MaxConfigPieces == 3 \* fragments in a text given to a misconfigured plugin
MaxBefore == 2       \* fragments of the selection's line before the selection
MaxSelected == 3     \* fragments in the selection
MaxWrapped == 3      \* fragments in a selection that is wrapped, then erased
MaxMarked == 2       \* fragments in a selection that is marked, then built
MaxBodyPieces == 2   \* fragments between the two comments of a selected region
MaxErasePieces == 3  \* fragments in a selection whose markers are erased
MaxPrefixPieces == 4 \* fragments in a text of loose slashes, spaces and tokens
MaxConfigured == 2   \* runs of the configure command in one session
MaxGapPieces == 1    \* fragments of code between two markers of a nested text

\* ------------------------------------------------------- text primitives
\* the value of a one-element set: { f(v) : v \in {e} } with Only binds a
\* local (const v = e) that is computed once
Only(S) == CHOOSE v \in S : TRUE

NL == "\n"
SP == " "

\* \s of the regular expressions
IsSpace(c) == c \in {SP, NL}

\* the characters String.prototype.replace(/[.*+?^${}()|[\]\\]/g, ...) escapes
MetaChars == {".", "*", "+", "?", "^", "$", "{", "}", "(", ")", "|", "[", "]", "\\"}

RECURSIVE escapeRegex(_)
escapeRegex(string) ==
    IF string = <<>> THEN <<>>
    ELSE (IF Head(string) \in MetaChars THEN <<"\\", Head(string)>> ELSE <<Head(string)>>)
         \o escapeRegex(Tail(string))

\* the atoms of an escaped token as the regex engine reads them: a backslash
\* followed by a character is that character taken literally
RECURSIVE Atoms(_)
Atoms(pat) ==
    IF pat = <<>> THEN <<>>
    ELSE IF Head(pat) = "\\" /\ Len(pat) >= 2
         THEN <<pat[2]>> \o Atoms(Tail(Tail(pat)))
         ELSE <<Head(pat)>> \o Atoms(Tail(pat))

\* literal t occurs in s at index i
HasAt(s, i, t) ==
    /\ i + Len(t) - 1 <= Len(s)
    /\ \A k \in 1..Len(t) : s[i + k - 1] = t[k]

Min(S) == CHOOSE m \in S : \A k \in S : m <= k
Max(S) == CHOOSE m \in S : \A k \in S : m >= k

\* \s* is greedy: index of the first non-space character at or after i
RECURSIVE SkipSpace(_, _)
SkipSpace(s, i) ==
    IF i <= Len(s) /\ IsSpace(s[i]) THEN SkipSpace(s, i + 1) ELSE i

\* end of the line holding index i: index of its "\n", or Len(s)+1
RECURSIVE LineEnd(_, _)
LineEnd(s, i) ==
    IF i > Len(s) \/ s[i] = NL THEN i ELSE LineEnd(s, i + 1)

\* the characters of s outside the spans; each span is <<first, next>>
RECURSIVE ReplaceFrom(_, _, _, _)
ReplaceFrom(s, spans, with, i) ==
    IF spans = <<>> THEN SubSeq(s, i, Len(s))
    ELSE SubSeq(s, i, Head(spans)[1] - 1) \o with
         \o ReplaceFrom(s, Tail(spans), with, Head(spans)[2])

Replace(s, spans, with) == ReplaceFrom(s, spans, with, 1)

\* ------------------------------------------------------ comment matching
\* faulty variant of the block comment match: /\* TOKEN \*/, one space on
\* each side of the token required
BlockCommentSpaced(s, i, token) ==
    IF HasAt(s, i, <<"/", "*", SP>> \o token \o <<SP, "*", "/">>)
    THEN i + Len(token) + 6 ELSE 0

\* /\*\s*TOKEN\s*\*/ anchored at i: index after the match, 0 if none
BlockCommentAt(s, i, token) ==
    IF ~HasAt(s, i, <<"/", "*">>) THEN 0
    ELSE LET j == SkipSpace(s, i + 2) IN
         IF ~HasAt(s, j, token) THEN 0
         ELSE LET k == SkipSpace(s, j + Len(token)) IN
              IF HasAt(s, k, <<"*", "/">>) THEN k + 2 ELSE 0

\* //\s*TOKEN anchored at i: index after the match, 0 if none
LineCommentAt(s, i, token) ==
    IF ~HasAt(s, i, <<"/", "/">>) THEN 0
    ELSE LET j == SkipSpace(s, i + 2) IN
         IF HasAt(s, j, token) THEN j + Len(token) ELSE 0

\* the extension's marker expressions.  An atom of their token is a
\* character taken literally, or one of the classes \S (not white space) and
\* \D (not a digit; the texts hold no digits)
AtomMatches(atom, c) ==
    \/ atom = c
    \/ atom = "\\S" /\ ~IsSpace(c)
    \/ atom = "\\D"

HasAtoms(s, i, atoms) ==
    /\ i + Len(atoms) - 1 <= Len(s)
    /\ \A k \in 1..Len(atoms) : AtomMatches(atoms[k], s[i + k - 1])

\* /\*\s*TOKEN\s*\*/ anchored at i, the first \s* giving characters back to
\* a token that starts with a class: index after the match, 0 if none
MarkerBlockAt(s, i, atoms) ==
    IF ~HasAt(s, i, <<"/", "*">>) THEN 0
    ELSE LET from == {j \in (i + 2)..SkipSpace(s, i + 2) :
                        /\ HasAtoms(s, j, atoms)
                        /\ HasAt(s, SkipSpace(s, j + Len(atoms)), <<"*", "/">>)}
         IN IF from = {} THEN 0 ELSE SkipSpace(s, Max(from) + Len(atoms)) + 2

\* //\s*TOKEN anchored at i
MarkerLineAt(s, i, atoms) ==
    IF ~HasAt(s, i, <<"/", "/">>) THEN 0
    ELSE LET from == {j \in (i + 2)..SkipSpace(s, i + 2) : HasAtoms(s, j, atoms)}
         IN IF from = {} THEN 0 ELSE Max(from) + Len(atoms)

\* faulty variants of the two searches below: [\s\S]* without the ?, which
\* runs to the last closing comment of the text
RECURSIVE LastBlockClose(_, _, _)
LastBlockClose(s, i, token) ==
    IF i > Len(s) THEN 0
    ELSE Only({IF later # 0 THEN later ELSE BlockCommentAt(s, i, token) :
               later \in {LastBlockClose(s, i + 1, token)}})

RECURSIVE LastLineClose(_, _, _)
LastLineClose(s, i, token) ==
    IF i > Len(s) THEN 0
    ELSE Only({IF later # 0 THEN later ELSE LineCommentAt(s, i, token) :
               later \in {LastLineClose(s, i + 1, token)}})

\* faulty variant of the block search below: a region without a closing
\* comment runs to the end of the text
RECURSIVE FirstBlockCloseOrEnd(_, _, _)
FirstBlockCloseOrEnd(s, i, token) ==
    IF i > Len(s) THEN Len(s) + 1
    ELSE LET e == BlockCommentAt(s, i, token) IN
         IF e # 0 THEN e ELSE FirstBlockCloseOrEnd(s, i + 1, token)

\* [\s\S]*? then the closing comment: the first index at or after i where the
\* closing comment matches decides the end of the match
RECURSIVE FirstBlockClose(_, _, _)
FirstBlockClose(s, i, token) ==
    IF i > Len(s) THEN 0
    ELSE LET e == BlockCommentAt(s, i, token) IN
         IF e # 0 THEN e ELSE FirstBlockClose(s, i + 1, token)

RECURSIVE FirstLineClose(_, _, _)
FirstLineClose(s, i, token) ==
    IF i > Len(s) THEN 0
    ELSE LET e == LineCommentAt(s, i, token) IN
         IF e # 0 THEN e ELSE FirstLineClose(s, i + 1, token)

\* new RegExp(`...${escapeRegex(token)}...`): every token goes through
\* escapeRegex and is read back by the regex engine
CompileTokens(patterns) ==
    [k \in DOMAIN patterns |-> Atoms(escapeRegex(patterns[k]))]

\* multiLineRegex anchored at i (patterns: the compiled tokens)
multiLineRegex(s, i, patterns) ==
    LET a == BlockCommentAt(s, i, patterns.multiLineStart) IN
    IF a = 0 THEN 0 ELSE FirstBlockClose(s, a, patterns.multiLineEnd)

\* singleLineBlockRegex anchored at i
singleLineBlockRegex(s, i, patterns) ==
    LET a == LineCommentAt(s, i, patterns.singleLineStart) IN
    IF a = 0 THEN 0 ELSE FirstLineClose(s, a, patterns.singleLineEnd)

\* ^.*//\s*TOKEN.*$ with the m flag, anchored at i.  ^ needs a line start;
\* the first .* is greedy and stays on the line, so the last "//" of the line
\* that is followed by \s*TOKEN is taken; \s* may run over newlines; the
\* second .* runs to the end of the line the token is on.
RECURSIVE LastMarkerFrom(_, _, _, _)
LastMarkerFrom(s, p, first, token) ==
    IF p < first THEN 0
    ELSE LET e == LineCommentAt(s, p, token) IN
         IF e # 0 THEN LineEnd(s, e) ELSE LastMarkerFrom(s, p - 1, first, token)

singleLineRegex(s, i, patterns) ==
    IF ~(i = 1 \/ s[i - 1] = NL) THEN 0
    ELSE LastMarkerFrom(s, LineEnd(s, i) - 2, i, patterns.singleLine)

\* /\n\s*\n\s*\n/ anchored at i: both \s* are greedy, so the match runs from a
\* newline to the last newline of the whitespace run, which must hold three
RECURSIVE CountNL(_, _, _)
CountNL(s, i, j) ==
    IF i >= j THEN 0 ELSE (IF s[i] = NL THEN 1 ELSE 0) + CountNL(s, i + 1, j)

RECURSIVE LastNL(_, _)
LastNL(s, j) == IF s[j] = NL THEN j ELSE LastNL(s, j - 1)

\* faulty variant of the cleanup expression: /\n\s*\n/, which also takes a
\* single blank line
twoNewlinesRegex(s, i, patterns) ==
    IF s[i] # NL THEN 0
    ELSE Only({IF CountNL(s, i, r) >= 2 THEN LastNL(s, r - 1) + 1 ELSE 0 :
               r \in {SkipSpace(s, i)}})

emptyLinesRegex(s, i, patterns) ==
    IF s[i] # NL THEN 0
    ELSE LET r == SkipSpace(s, i) IN
         IF CountNL(s, i, r) >= 3 THEN LastNL(s, r - 1) + 1 ELSE 0

\* one regular expression anchored at i
MatchAt(regex, s, i, patterns) ==
    CASE regex = "multiLine" -> multiLineRegex(s, i, patterns)
      [] regex = "singleLineBlock" -> singleLineBlockRegex(s, i, patterns)
      [] regex = "singleLine" -> singleLineRegex(s, i, patterns)
      [] regex = "emptyLines" -> emptyLinesRegex(s, i, patterns)
      \* the extension's expressions; patterns is the one escaped marker
      [] regex = "markerBlock" -> MarkerBlockAt(s, i, patterns)
      [] regex = "markerLine" -> MarkerLineAt(s, i, patterns)
      [] regex = "newlineIndent" -> IF s[i] = NL THEN SkipSpace(s, i + 1) ELSE 0

\* String.prototype.match / replace with the g flag: leftmost matches, scanned
\* left to right, the scan resuming at the end of each match
RECURSIVE MatchesFrom(_, _, _, _)
MatchesFrom(regex, s, i, patterns) ==
    IF i > Len(s) THEN <<>>
    ELSE Only({IF e # 0 THEN <<<<i, e>>>> \o MatchesFrom(regex, s, e, patterns)
               ELSE MatchesFrom(regex, s, i + 1, patterns) :
               e \in {MatchAt(regex, s, i, patterns)}})

Matches(regex, s, patterns) == MatchesFrom(regex, s, 1, patterns)

\* ------------------------------------------------------------ the plugin
\* defaultOptions.patterns
DefaultPatterns ==
    [multiLineStart |-> <<"R", "S">>, multiLineEnd |-> <<"R", "E">>,
     singleLineStart |-> <<"R", "S">>, singleLineEnd |-> <<"R", "E">>,
     singleLine |-> <<"R">>]

\* the custom patterns of the README: five distinct tokens
CustomPatterns ==
    [multiLineStart |-> <<"D", "S">>, multiLineEnd |-> <<"D", "E">>,
     singleLineStart |-> <<"V", "S">>, singleLineEnd |-> <<"V", "E">>,
     singleLine |-> <<"L">>]

\* defaultOptions (debug only logs and is left out)
defaultOptions ==
    [patterns |-> DefaultPatterns,
     environments |-> {"production"},
     exclude |-> {},
     include |-> {<<".ts">>, <<".js">>, <<".tsx">>, <<".jsx">>}]

\* removeCodePlugin(options): config = { ...defaultOptions, ...options }.
\* options is a record holding the keys the caller gave; the key
\* isTargetEnvironment is there when a predicate function was given.
removeCodePlugin(options) ==
    [k \in DOMAIN defaultOptions \cup DOMAIN options |->
        IF k \in DOMAIN options THEN options[k] ELSE defaultOptions[k]]

\* String.prototype.endsWith / includes on ids (sequences of path atoms)
EndsWith(f, suffix) ==
    /\ Len(suffix) <= Len(f)
    /\ SubSeq(f, Len(f) - Len(suffix) + 1, Len(f)) = suffix

Includes(f, part) ==
    \E i \in 1..(Len(f) + 1) : HasAt(f, i, part)

\* !!process.env.VITEST: unset and the empty string are falsy
IsVitest(e) == e.VITEST \notin {"undefined", ""}

\* if (config.isTargetEnvironment)
HasPredicate(cfg) == "isTargetEnvironment" \in DOMAIN cfg

\* faulty variants of the environment check: the test-mode signal looked at
\* before the predicate; the first answer of a plugin instance kept for its
\* later calls
shouldRemoveTestFirst(cfg, e, answer) ==
    IF IsVitest(e) THEN "test" \in cfg.environments
    ELSE IF HasPredicate(cfg) THEN answer
    ELSE e.NODE_ENV \in cfg.environments

shouldRemoveCached(cfg, e, answer) ==
    IF gate # "skipped" THEN gate = "true"
    ELSE IF HasPredicate(cfg) THEN answer
    ELSE IF IsVitest(e) THEN "test" \in cfg.environments
    ELSE e.NODE_ENV \in cfg.environments

\* the environment check of the handlers; answer is what the predicate
\* returns when it is called
shouldRemove(cfg, e, answer) ==
    IF HasPredicate(cfg) THEN answer
    ELSE IF IsVitest(e) THEN "test" \in cfg.environments
    ELSE e.NODE_ENV \in cfg.environments

\* one match/replace pass: [matched, text]
Pass(regex, s, patterns) ==
    Only({[matched |-> m # <<>>,
           text |-> IF m # <<>> THEN Replace(s, m, <<>>) ELSE s] :
          m \in {Matches(regex, s, patterns)}})

\* the cleanup replace
Cleanup(s) ==
    Only({Replace(s, m, <<NL, NL>>) : m \in {Matches("emptyLines", s, <<>>)}})

\* faulty variant of RemoveWith: the line pairs removed before the block
\* pairs
RemoveLinePairsFirst(text, patterns) ==
    Only({
      Only({
        Only({
          Only({[hasChanges |-> hasChanges,
                 transformedCode |-> final,
                 stages |-> <<p1.text, p2.text, p3.text, final>>] :
                hasChanges \in {p1.matched \/ p2.matched \/ p3.matched},
                final \in {IF p1.matched \/ p2.matched \/ p3.matched
                           THEN Cleanup(p3.text) ELSE p3.text}}) :
          p3 \in {Pass("singleLine", p2.text, patterns)}}) :
        p2 \in {Pass("multiLine", p1.text, patterns)}}) :
      p1 \in {Pass("singleLineBlock", text, patterns)}})

\* the three passes on already compiled tokens, then the cleanup when
\* something was removed
RemoveWith(text, patterns) ==
    Only({
      Only({
        Only({
          Only({[hasChanges |-> hasChanges,
                 transformedCode |-> final,
                 stages |-> <<p1.text, p2.text, p3.text, final>>] :
                hasChanges \in {p1.matched \/ p2.matched \/ p3.matched},
                final \in {IF p1.matched \/ p2.matched \/ p3.matched
                           THEN Cleanup(p3.text) ELSE p3.text}}) :
          p3 \in {Pass("singleLine", p2.text, patterns)}}) :
        p2 \in {Pass("singleLineBlock", p1.text, patterns)}}) :
      p1 \in {Pass("multiLine", text, patterns)}})

\* the removal engine both handlers carry
RemoveCode(text, rawPatterns) ==
    Only({RemoveWith(text, patterns) : patterns \in {CompileTokens(rawPatterns)}})

NoStages == <<>>
Unchanged(kind) == [kind |-> kind, code |-> <<>>]

\* a handler's return before the engine runs
Skip(kind, seen, n) ==
    [result |-> Unchanged(kind), stages |-> NoStages, gate |-> seen, predCalls |-> n]

\* faulty variant of the engine part: the text returned whether or not
\* something was removed
RewriteAlways(kind, text, cfg, n) ==
    Only({[result |-> [kind |-> "result", code |-> r.transformedCode],
           stages |-> r.stages, gate |-> "true", predCalls |-> n] :
          r \in {RemoveCode(text, cfg.patterns)}})

\* the five tokens the regular expressions are built from
TokenNames ==
    {"multiLineStart", "multiLineEnd", "singleLineStart", "singleLineEnd",
     "singleLine"}

\* escapeRegex(undefined) throws a TypeError out of the handler, at the
\* first regular expression built from a token the patterns object lacks
Thrown == [kind |-> "throws", code |-> <<>>]

\* transformedCode after each pass that completes before that throw
RemoveUntilThrow(text, patterns) ==
    IF {"multiLineStart", "multiLineEnd"} \ DOMAIN patterns # {} THEN <<>>
    ELSE Only({IF {"singleLineStart", "singleLineEnd"} \ DOMAIN patterns # {}
               THEN <<p1.text>>
               ELSE <<p1.text, Pass("singleLineBlock", p1.text, patterns).text>> :
               p1 \in {Pass("multiLine", text, patterns)}})

\* the engine part of a handler: the rewritten text, or unchanged
Rewrite(kind, text, cfg, n) ==
    IF TokenNames \ DOMAIN cfg.patterns # {}
    THEN [result |-> Thrown,
          stages |-> RemoveUntilThrow(text, CompileTokens(cfg.patterns)),
          gate |-> "true", predCalls |-> n]
    ELSE
    Only({[result |-> IF r.hasChanges
                      THEN [kind |-> "result", code |-> r.transformedCode]
                      ELSE Unchanged(kind),
           stages |-> r.stages, gate |-> "true", predCalls |-> n] :
          r \in {RemoveCode(text, cfg.patterns)}})

\* faulty variant of transform: once a call of the plugin instance has
\* thrown, its later calls throw too
transformAfterFailure(cfg, e, answer, text, f) ==
    IF result = Thrown
    THEN [result |-> Thrown, stages |-> NoStages, gate |-> "skipped", predCalls |-> 0]
    ELSE IF ~(\E ext \in cfg.include : EndsWith(f, ext)) THEN Skip("null", "skipped", 0)
    ELSE IF \E pattern \in cfg.exclude : Includes(f, pattern)
    THEN Skip("null", "skipped", 0)
    ELSE IF ~shouldRemove(cfg, e, answer)
    THEN Skip("null", "false", IF HasPredicate(cfg) THEN 1 ELSE 0)
    ELSE Rewrite("null", text, cfg, IF HasPredicate(cfg) THEN 1 ELSE 0)

\* faulty variant of transform: the environment check made before the file
\* filters
transformGateFirst(cfg, e, answer, text, f) ==
    IF ~shouldRemove(cfg, e, answer)
    THEN Skip("null", "false", IF HasPredicate(cfg) THEN 1 ELSE 0)
    ELSE IF ~(\E ext \in cfg.include : EndsWith(f, ext))
    THEN Skip("null", "skipped", IF HasPredicate(cfg) THEN 1 ELSE 0)
    ELSE IF \E pattern \in cfg.exclude : Includes(f, pattern)
    THEN Skip("null", "skipped", IF HasPredicate(cfg) THEN 1 ELSE 0)
    ELSE Rewrite("null", text, cfg, IF HasPredicate(cfg) THEN 1 ELSE 0)

\* faulty variant of transform: the early return on a false environment
\* check left out
transformUngated(cfg, e, answer, text, f) ==
    IF ~(\E ext \in cfg.include : EndsWith(f, ext)) THEN Skip("null", "skipped", 0)
    ELSE IF \E pattern \in cfg.exclude : Includes(f, pattern)
    THEN Skip("null", "skipped", 0)
    ELSE Rewrite("null", text, cfg, IF HasPredicate(cfg) THEN 1 ELSE 0)

\* removeCodePlugin(...).transform(code, id) of the Vite plugin
transform(cfg, e, answer, text, f) ==
    IF ~(\E ext \in cfg.include : EndsWith(f, ext)) THEN Skip("null", "skipped", 0)
    ELSE IF \E pattern \in cfg.exclude : Includes(f, pattern)
    THEN Skip("null", "skipped", 0)
    ELSE IF ~shouldRemove(cfg, e, answer)
    THEN Skip("null", "false", IF HasPredicate(cfg) THEN 1 ELSE 0)
    ELSE Rewrite("null", text, cfg, IF HasPredicate(cfg) THEN 1 ELSE 0)

\* the filter esbuild applies before it calls the onLoad callback:
\* new RegExp(include.map(ext => `\\${ext}$`).join('|')), for extensions
\* that start with a dot
Filter(cfg, f) == \E ext \in cfg.include : EndsWith(f, ext)

\* faulty variant of onLoad: the contents returned whether or not the
\* engine removed something
onLoadAlways(cfg, e, answer, text, f, readable) ==
    IF \E pattern \in cfg.exclude : Includes(f, pattern)
    THEN Skip("undefined", "skipped", 0)
    ELSE IF ~shouldRemove(cfg, e, answer)
    THEN Skip("undefined", "false", IF HasPredicate(cfg) THEN 1 ELSE 0)
    ELSE IF ~readable
    THEN Skip("undefined", "true", IF HasPredicate(cfg) THEN 1 ELSE 0)
    ELSE RewriteAlways("undefined", text, cfg, IF HasPredicate(cfg) THEN 1 ELSE 0)

\* the build.onLoad callback of the esbuild plugin; readable: readFileSync
\* succeeds and yields text
onLoad(cfg, e, answer, text, f, readable) ==
    IF \E pattern \in cfg.exclude : Includes(f, pattern)
    THEN Skip("undefined", "skipped", 0)
    ELSE IF ~shouldRemove(cfg, e, answer)
    THEN Skip("undefined", "false", IF HasPredicate(cfg) THEN 1 ELSE 0)
    ELSE IF ~readable
    THEN Skip("undefined", "true", IF HasPredicate(cfg) THEN 1 ELSE 0)
    ELSE Rewrite("undefined", text, cfg, IF HasPredicate(cfg) THEN 1 ELSE 0)

\* ------------------------------------------------------------- the inputs
BlockComment(token) == <<"/", "*">> \o token \o <<"*", "/">>
SpacedComment(token) == <<"/", "*", SP>> \o token \o <<SP, "*", "/">>
LineComment(token) == <<"/", "/">> \o token

\* fragments of source text: code, a newline, and the five marker comments
Pieces(patterns) ==
    {<<"x">>, <<NL>>,
     BlockComment(patterns.multiLineStart), BlockComment(patterns.multiLineEnd),
     LineComment(patterns.singleLineStart), LineComment(patterns.singleLineEnd),
     LineComment(patterns.singleLine)}

\* the narrower vocabularies of longer texts: lines of code and line
\* markers; blank and whitespace-only lines and line markers
LinePieces(patterns) ==
    {<<"x">>, <<NL>>, LineComment(patterns.singleLine)}

SpacePieces(patterns) ==
    {<<NL>>, <<SP>>, LineComment(patterns.singleLine)}

\* code around block pairs, and lines of code around line pairs
BlockPieces(patterns) ==
    {<<"x">>, BlockComment(patterns.multiLineStart),
     BlockComment(patterns.multiLineEnd)}

PairPieces(patterns) ==
    {<<"x">>, <<NL>>, LineComment(patterns.singleLineStart),
     LineComment(patterns.singleLineEnd)}

\* a complete, empty marker pair
Pairs(patterns) ==
    {BlockComment(patterns.multiLineStart) \o BlockComment(patterns.multiLineEnd),
     LineComment(patterns.singleLineStart) \o LineComment(patterns.singleLineEnd)}

\* text t with r put in before its character k
Splice(t, k, r) == SubSeq(t, 1, k - 1) \o r \o SubSeq(t, k, Len(t))

RECURSIVE TextsOf(_, _)
TextsOf(pieces, n) ==
    IF n = 0 THEN {<<>>}
    ELSE Only({shorter \cup {t \o p : t \in shorter, p \in pieces} :
               shorter \in {TextsOf(pieces, n - 1)}})

\* the texts a file may hold: any MaxPieces fragments; longer texts over the
\* narrower vocabularies; a marker pair sitting anywhere inside other
\* fragments
Texts(patterns) ==
    TextsOf(Pieces(patterns), MaxPieces)
    \cup TextsOf(LinePieces(patterns), MaxLinePieces)
    \cup TextsOf(SpacePieces(patterns), MaxSpacePieces)
    \cup TextsOf(BlockPieces(patterns), MaxPairPieces)
    \cup TextsOf(PairPieces(patterns), MaxPairPieces)
    \cup UNION {{Splice(t, k, r) : k \in 1..(Len(t) + 1), r \in Pairs(patterns)} :
                 t \in TextsOf(Pieces(patterns), MaxOuterPieces)}

SourceFile == <<"a", ".ts">>

\* ------------------------------------------------- the editor, at rest
\* getConfig() with nothing configured: the defaults of every setting
DefaultSettings ==
    [multiLineStart |-> <<"R", "S">>, multiLineEnd |-> <<"R", "E">>,
     singleLineMarker |-> <<"R">>,
     productionOnlyStart |-> <<"P", "S">>, productionOnlyEnd |-> <<"P", "E">>,
     developmentOnlyStart |-> <<"V", "S">>, developmentOnlyEnd |-> <<"V", "E">>,
     testOnlyStart |-> <<"T", "S">>, testOnlyEnd |-> <<"T", "E">>,
     debugStart |-> <<"D", "S">>, debugEnd |-> <<"D", "E">>,
     useSpacing |-> TRUE, defaultCommentStyle |-> "multiline",
     preserveIndentation |-> TRUE, addEmptyLines |-> TRUE]

\* no active text editor
NoEditor == [open |-> FALSE, document |-> <<>>, selection |-> [start |-> 1, end |-> 1]]

\* no command has run
NothingIssued ==
    [command |-> "none", n |-> 0, selected |-> <<>>, edits |-> <<>>, messages |-> <<>>]

\* the builds run without the editor
NotEditing ==
    /\ editor = NoEditor
    /\ settings = DefaultSettings
    /\ issued = NothingIssued
    /\ opened = NoEditor

\* ------------------------------------------------------------ the actions
\* what a call leaves behind
Served(by, text, f, r) ==
    /\ host' = by
    /\ code' = text
    /\ id' = f
    /\ result' = r.result
    /\ stages' = r.stages
    /\ gate' = r.gate
    /\ predCalls' = r.predCalls
    /\ fresh' = TRUE
    /\ calls' = calls + 1
    /\ previous' = [kind |-> result.kind, code |-> code, id |-> id]
    /\ UNCHANGED <<env, predicate, config>>
    /\ UNCHANGED editorVars

\* Vite hands a module to the plugin's transform hook
Serve(text, f) ==
    \E r \in {transform(config, env, predicate, text, f)} :
        Served("vite", text, f, r)

\* esbuild loads a file whose path passes the filter
Load(text, f, readable) ==
    /\ Filter(config, f)
    /\ \E r \in {onLoad(config, env, predicate, text, f, readable)} :
          Served("esbuild", text, f, r)

NotServed ==
    /\ host = "none"
    /\ result = Unchanged("none")
    /\ stages = NoStages
    /\ gate = "skipped"
    /\ predCalls = 0
    /\ fresh = TRUE
    /\ calls = 0
    /\ previous = [kind |-> "none", code |-> <<>>, id |-> <<>>]
    /\ reapplied = FALSE

\* Spec: a production build with the default or the custom patterns takes one
\* file through the Vite plugin, then the returned text through again
Init ==
    /\ env = [NODE_ENV |-> "production", VITEST |-> "undefined"]
    /\ predicate = FALSE
    /\ \E patterns \in {DefaultPatterns, CustomPatterns} :
         /\ config = removeCodePlugin([patterns |-> patterns])
         /\ code \in Texts(patterns)
    /\ id = SourceFile
    /\ NotServed
    /\ NotEditing

Transform ==
    /\ calls = 0
    /\ Serve(code, id)
    /\ reapplied' = FALSE

Retransform ==
    /\ calls = 1
    /\ result.kind = "result"
    /\ Serve(result.code, id)
    /\ reapplied' = TRUE

Next == Transform \/ Retransform

Spec == Init /\ [][Next]_vars

\* SpecPrefix: a production build with the default patterns takes a file in
\* which slashes, spaces and the three line tokens stand loose, so that line
\* comments with and without a space, complete and stray, come about
PrefixPieces ==
    {<<"x">>, <<NL>>, <<SP>>, <<"/", "/">>,
     DefaultPatterns.singleLine, DefaultPatterns.singleLineStart,
     DefaultPatterns.singleLineEnd}

StrayLines ==
    {<<"x", SP, "/", "/", SP>> \o token \o <<NL, "x">> :
        token \in {DefaultPatterns.singleLineStart, DefaultPatterns.singleLineEnd}}
    \cup {LineComment(DefaultPatterns.singleLineStart) \o <<NL, "x", NL>>
            \o LineComment(DefaultPatterns.singleLineEnd) \o <<NL, "x", "/", "/", SP>>
            \o token \o <<NL, "x">> :
            token \in {DefaultPatterns.singleLineStart,
                       DefaultPatterns.singleLineEnd}}

InitPrefix ==
    /\ env = [NODE_ENV |-> "production", VITEST |-> "undefined"]
    /\ predicate = FALSE
    /\ config = removeCodePlugin(<<>>)
    /\ code \in TextsOf(PrefixPieces, MaxPrefixPieces) \cup StrayLines
    /\ id = SourceFile
    /\ NotServed
    /\ NotEditing

SpecPrefix == InitPrefix /\ [][Next]_vars

\* SpecTiers: texts in which markers of the three kinds stand inside one
\* another
TierOrders(patterns) ==
    LET BS == BlockComment(patterns.multiLineStart)
        BE == BlockComment(patterns.multiLineEnd)
        LS == LineComment(patterns.singleLineStart)
        LE == LineComment(patterns.singleLineEnd)
        LM == LineComment(patterns.singleLine)
    IN {<<BS, LS, BE, LE>>, <<LS, BS, LE, BE>>, <<BS, LM, BE, LE>>,
        <<LS, BS, BE, LE>>, <<BS, LS, LE, BE>>}

TierTexts(patterns) ==
    {m[1] \o a \o m[2] \o b \o m[3] \o c \o m[4] :
        m \in TierOrders(patterns),
        a \in TextsOf({<<"x">>, <<NL>>}, MaxGapPieces),
        b \in TextsOf({<<"x">>, <<NL>>}, MaxGapPieces),
        c \in TextsOf({<<"x">>, <<NL>>}, MaxGapPieces)}

InitTiers ==
    /\ env = [NODE_ENV |-> "production", VITEST |-> "undefined"]
    /\ predicate = FALSE
    /\ \E patterns \in {DefaultPatterns, CustomPatterns} :
         /\ config = removeCodePlugin([patterns |-> patterns])
         /\ code \in TierTexts(patterns)
    /\ id = SourceFile
    /\ NotServed
    /\ NotEditing

SpecTiers == InitTiers /\ [][Next]_vars

\* SpecConfig: a production build whose options carry a patterns object with
\* an empty token or without some of the tokens
Without(patterns, name) == [k \in DOMAIN patterns \ {name} |-> patterns[k]]

BadPatterns ==
    {[DefaultPatterns EXCEPT ![name] = <<>>] : name \in TokenNames}
    \cup {Without(DefaultPatterns, name) : name \in TokenNames}
    \cup {[singleLine |-> DefaultPatterns.singleLine]}

ConfigPieces ==
    {<<"x">>, <<NL>>, <<"/", "/">>, <<"/", "*", "*", "/">>,
     LineComment(DefaultPatterns.singleLine)}

InitConfig ==
    /\ env = [NODE_ENV |-> "production", VITEST |-> "undefined"]
    /\ predicate = FALSE
    /\ \E patterns \in BadPatterns \cup {DefaultPatterns} :
         config = removeCodePlugin([patterns |-> patterns])
    /\ code \in TextsOf(ConfigPieces, MaxConfigPieces)
    /\ id = SourceFile
    /\ NotServed
    /\ NotEditing

NextConfig == Transform

SpecConfig == InitConfig /\ [][NextConfig]_vars

\* SpecGate: one plugin instance serves several files while the process
\* environment and the predicate's answer change between the calls
NodeEnvs == {"undefined", "production", "development", "test"}
VitestValues == {"undefined", "", "true"}

GateOptions ==
    {<<>>,
     [environments |-> {"test"}],
     [environments |-> {"production", "test"}],
     [isTargetEnvironment |-> "function"],
     [isTargetEnvironment |-> "function", environments |-> {"test"}]}

GateTexts ==
    {<<"x">>,
     BlockComment(DefaultPatterns.multiLineStart) \o <<"x">>
        \o BlockComment(DefaultPatterns.multiLineEnd) \o <<"x">>}

GateFiles == {SourceFile, <<"a", ".vue">>}

InitGate ==
    /\ env \in [NODE_ENV : NodeEnvs, VITEST : VitestValues]
    /\ predicate \in BOOLEAN
    /\ \E options \in GateOptions : config = removeCodePlugin(options)
    /\ code = <<>>
    /\ id = <<>>
    /\ NotServed
    /\ NotEditing

SetNodeEnv ==
    /\ \E v \in NodeEnvs \ {env.NODE_ENV} : env' = [env EXCEPT !.NODE_ENV = v]
    /\ fresh' = FALSE
    /\ UNCHANGED <<predicate, config, host, code, id, result, stages, gate,
                   predCalls, calls, previous, reapplied>>
    /\ UNCHANGED editorVars

SetVitest ==
    /\ \E v \in VitestValues \ {env.VITEST} : env' = [env EXCEPT !.VITEST = v]
    /\ fresh' = FALSE
    /\ UNCHANGED <<predicate, config, host, code, id, result, stages, gate,
                   predCalls, calls, previous, reapplied>>
    /\ UNCHANGED editorVars

SetPredicate ==
    /\ predicate' = ~predicate
    /\ fresh' = FALSE
    /\ UNCHANGED <<env, config, host, code, id, result, stages, gate,
                   predCalls, calls, previous, reapplied>>
    /\ UNCHANGED editorVars

ViteTransform ==
    /\ calls < MaxCalls
    /\ \E text \in GateTexts, f \in GateFiles : Serve(text, f)
    /\ reapplied' = FALSE

EsbuildLoad ==
    /\ calls < MaxCalls
    /\ \E text \in GateTexts, f \in GateFiles, readable \in BOOLEAN :
          Load(text, f, readable)
    /\ reapplied' = FALSE

NextGate ==
    SetNodeEnv \/ SetVitest \/ SetPredicate \/ ViteTransform \/ EsbuildLoad

SpecGate == InitGate /\ [][NextGate]_vars

\* SpecFiles: one plugin instance, also one whose patterns lack a token or
\* whose filters turn files away, serves several files in any order while
\* the environment changes
FileOptions ==
    {<<>>,
     [patterns |-> Without(DefaultPatterns, "singleLine")],
     [include |-> {<<".vue">>}],
     [exclude |-> {<<".vue">>}, isTargetEnvironment |-> "function"]}

InitFiles ==
    /\ env \in [NODE_ENV : NodeEnvs, VITEST : VitestValues]
    /\ predicate \in BOOLEAN
    /\ \E options \in FileOptions : config = removeCodePlugin(options)
    /\ code = <<>>
    /\ id = <<>>
    /\ NotServed
    /\ NotEditing

SpecFiles == InitFiles /\ [][NextGate]_vars

\* SpecFilter: plugin instances with include and exclude lists take files
\* of several names, under any environment
FilterOptions ==
    {<<>>,
     [exclude |-> {<<"node_modules">>}],
     [exclude |-> {<<".test">>, <<"node_modules">>}, isTargetEnvironment |-> "function"],
     [include |-> {<<".vue">>}],
     [include |-> {<<".vue">>, <<".ts">>}, exclude |-> {<<"a">>},
      isTargetEnvironment |-> "function"],
     [include |-> {}]}

FilterFiles ==
    {SourceFile, <<"a", ".vue">>, <<"b", ".test", ".ts">>,
     <<"node_modules", "/", "b", ".ts">>, <<"b", ".ts", ".map">>}

InitFilter ==
    /\ env \in [NODE_ENV : NodeEnvs, VITEST : VitestValues]
    /\ predicate \in BOOLEAN
    /\ \E options \in FilterOptions : config = removeCodePlugin(options)
    /\ code = <<>>
    /\ id = <<>>
    /\ NotServed
    /\ NotEditing

TransformFile ==
    /\ calls = 0
    /\ \E text \in GateTexts, f \in FilterFiles : Serve(text, f)
    /\ reapplied' = FALSE

LoadFile ==
    /\ calls = 0
    /\ \E text \in GateTexts, f \in FilterFiles : Load(text, f, TRUE)
    /\ reapplied' = FALSE

NextFilter == TransformFile \/ LoadFile

SpecFilter == InitFilter /\ [][NextFilter]_vars

\* SpecHosts: the same file is taken by the Vite plugin or by the esbuild
\* plugin, built with the same options, under the same environment
HostOptions ==
    GateOptions
    \cup {[patterns |-> CustomPatterns],
          [patterns |-> CustomPatterns, environments |-> {"development", "test"}],
          [exclude |-> {<<"node_modules">>}]}

HostTexts(patterns) ==
    Pieces(patterns)
    \cup {BlockComment(patterns.multiLineStart) \o <<"x">>
            \o BlockComment(patterns.multiLineEnd) \o <<"x">>,
          <<"x", NL>> \o LineComment(patterns.singleLineStart) \o <<NL, "x", NL>>
            \o LineComment(patterns.singleLineEnd) \o <<NL, "x">>,
          <<"x", NL>> \o LineComment(patterns.singleLine) \o <<NL, NL, NL, "x">>,
          <<"x">> \o LineComment(patterns.singleLineEnd)
            \o BlockComment(patterns.multiLineStart)}

InitHosts ==
    /\ env \in [NODE_ENV : NodeEnvs, VITEST : VitestValues]
    /\ predicate \in BOOLEAN
    /\ \E options \in HostOptions :
         /\ config = removeCodePlugin(options)
         /\ code \in HostTexts(removeCodePlugin(options).patterns)
    /\ id \in FilterFiles
    /\ NotServed
    /\ NotEditing

ViteTakes ==
    /\ calls = 0
    /\ Serve(code, id)
    /\ reapplied' = FALSE

EsbuildTakes ==
    /\ calls = 0
    /\ \E readable \in BOOLEAN : Load(code, id, readable)
    /\ reapplied' = FALSE

NextHosts == ViteTakes \/ EsbuildTakes

SpecHosts == InitHosts /\ [][NextHosts]_vars

\* -------------------------------------------- vocabulary of the claims
\* the tokens of the plugin instance as the regular expressions hold them
Tokens == CompileTokens(config.patterns)

\* the last call ran the removal engine
Ran == gate = "true" /\ stages # NoStages

\* the last call rewrote the file
Rewrote == result.kind = "result"

\* text.split("\n")
RECURSIVE SplitFrom(_, _)
SplitFrom(s, i) ==
    Only({IF e > Len(s) THEN <<SubSeq(s, i, Len(s))>>
          ELSE <<SubSeq(s, i, e - 1)>> \o SplitFrom(s, e + 1) :
          e \in {LineEnd(s, i)}})

SplitLines(s) == SplitFrom(s, 1)

\* lines.join("\n")
RECURSIVE JoinLines(_)
JoinLines(lines) ==
    IF lines = <<>> THEN <<>>
    ELSE IF Len(lines) = 1 THEN lines[1]
    ELSE lines[1] \o <<NL>> \o JoinLines(Tail(lines))

\* the lines of a text that a reader sees: the empty piece after a final
\* newline is no line
TextLines(s) ==
    Only({IF lines[Len(lines)] = <<>> THEN SubSeq(lines, 1, Len(lines) - 1)
          ELSE lines : lines \in {SplitLines(s)}})

IsBlank(line) == \A k \in 1..Len(line) : IsSpace(line[k])

\* the line holds a line comment with the token
LineHasMarker(line, token) ==
    \E p \in 1..Len(line) : LineCommentAt(line, p, token) # 0

\* number of the line that holds index i
LineNo(s, i) == 1 + Cardinality({k \in 1..(i - 1) : s[k] = NL})

\* a is a subsequence of b
RECURSIVE IsSubsequence(_, _)
IsSubsequence(a, b) ==
    IF a = <<>> THEN TRUE
    ELSE IF b = <<>> THEN FALSE
    ELSE IF Head(a) = Head(b) THEN IsSubsequence(Tail(a), Tail(b))
    ELSE IsSubsequence(a, Tail(b))

\* the characters of s that no span covers, in order
RECURSIVE OutsideFrom(_, _, _)
OutsideFrom(s, spans, i) ==
    IF i > Len(s) THEN <<>>
    ELSE (IF \E n \in 1..Len(spans) : spans[n][1] <= i /\ i < spans[n][2]
          THEN <<>> ELSE <<s[i]>>)
         \o OutsideFrom(s, spans, i + 1)

Outside(s, spans) == OutsideFrom(s, spans, 1)

\* s with every whitespace run that holds three or more newlines rewritten
\* to: the spaces before its first newline, two newlines, the spaces after
\* its last newline
RECURSIVE CollapseFrom(_, _)
CollapseFrom(s, i) ==
    IF i > Len(s) THEN <<>>
    ELSE IF ~IsSpace(s[i]) THEN <<s[i]>> \o CollapseFrom(s, i + 1)
    ELSE Only({
           IF Cardinality(nls) >= 3
           THEN SubSeq(s, i, Min(nls) - 1) \o <<NL, NL>>
                \o SubSeq(s, Max(nls) + 1, r - 1) \o CollapseFrom(s, r)
           ELSE SubSeq(s, i, r - 1) \o CollapseFrom(s, r) :
           <<r, nls>> \in {<<q, {k \in i..(q - 1) : s[k] = NL}>> :
                           q \in {SkipSpace(s, i)}}})

CollapseRuns(s) == CollapseFrom(s, 1)

\* ----------------------------------------- the editor extension's functions
\* editor.document.getText(editor.selection); a selection is the characters
\* start..end-1 of the document
getText(ed) == SubSeq(ed.document, ed.selection.start, ed.selection.end - 1)

\* start of the line that holds position i
RECURSIVE LineStart(_, _)
LineStart(s, i) == IF i = 1 \/ s[i - 1] = NL THEN i ELSE LineStart(s, i - 1)

\* editor.document.lineAt(position.line).text
lineAt(s, i) == SubSeq(s, LineStart(s, i), LineEnd(s, i) - 1)

\* line.match(/^(\s*)/)[1]
getIndentation(line) == SubSeq(line, 1, SkipSpace(line, 1) - 1)

\* String.prototype.trim
RECURSIVE TrimEnd(_)
TrimEnd(s) ==
    IF s # <<>> /\ IsSpace(s[Len(s)]) THEN TrimEnd(SubSeq(s, 1, Len(s) - 1)) ELSE s

trim(s) == TrimEnd(SubSeq(s, SkipSpace(s, 1), Len(s)))

\* faulty variant of OnOneLine: text.replace(/\n/g, ' ')
NewlinesToSpaces(s) == [k \in DOMAIN s |-> IF s[k] = NL THEN SP ELSE s[k]]

\* text.replace(/\n\s*/g, ' ')
OnOneLine(s) == Replace(s, Matches("newlineIndent", s, <<>>), <<SP>>)

\* the extension's escapeRegex: string.replace(/[.*+?^${}()|[\]\\]/g, '\\'),
\* every special character replaced by one backslash
RECURSIVE escapeRegexExt(_)
escapeRegexExt(string) ==
    IF string = <<>> THEN <<>>
    ELSE (IF Head(string) \in MetaChars THEN <<"\\">> ELSE <<Head(string)>>)
         \o escapeRegexExt(Tail(string))

\* what the regex engine reads in a marker the extension has escaped: the
\* backslash put in place of a special character escapes the character
\* after it: \S and \D are classes, a second backslash is a backslash, any
\* other letter is itself
RECURSIVE ExtAtoms(_)
ExtAtoms(pat) ==
    IF pat = <<>> THEN <<>>
    ELSE IF Head(pat) = "\\" /\ Len(pat) >= 2
         THEN <<IF pat[2] = "S" THEN "\\S" ELSE IF pat[2] = "D" THEN "\\D" ELSE pat[2]>>
              \o ExtAtoms(Tail(Tail(pat)))
         ELSE <<Head(pat)>> \o ExtAtoms(Tail(pat))

\* new RegExp(`\/\/\s*${escapeRegex(marker)}`, 'g') throws a SyntaxError
\* when the pattern ends with a backslash that escapes nothing
RECURSIVE EndsEscaped(_)
EndsEscaped(pat) ==
    IF pat = <<>> THEN TRUE
    ELSE IF Head(pat) = "\\" THEN Len(pat) >= 2 /\ EndsEscaped(Tail(Tail(pat)))
    ELSE EndsEscaped(Tail(pat))

Compiles(marker) == EndsEscaped(escapeRegexExt(marker))

Message(level, text) == [level |-> level, text |-> text]

\* what a function of the extension does: the edit transactions it applies,
\* each a sequence of replacements [start, end, text] of start..end-1, and
\* the messages it shows
Did(edits, messages) == [edits |-> edits, messages |-> messages]

\* editor.edit(editBuilder => editBuilder.replace(selection, text))
ReplaceSelection(ed, text) ==
    <<<<[start |-> ed.selection.start, end |-> ed.selection.end, text |-> text]>>>>

\* `/*${spacing}${marker}${spacing}*/` and `//${spacing}${marker}`
Spacing(cfg) == IF cfg.useSpacing THEN <<SP>> ELSE <<>>
BlockCommentOf(cfg, marker) == <<"/", "*">> \o Spacing(cfg) \o marker \o Spacing(cfg) \o <<"*", "/">>
LineCommentOf(cfg, marker) == <<"/", "/">> \o Spacing(cfg) \o marker

\* faulty variant of wrapWithComments: the selected text is not looked at
\* before the comments are put around it
wrapWithoutCheck(ed, cfg, startMarker, endMarker, useMultiLineStyle, inline) ==
    Did(ReplaceSelection(ed, BlockCommentOf(cfg, startMarker) \o <<NL>> \o getText(ed)
                             \o <<NL>> \o BlockCommentOf(cfg, endMarker)), <<>>)

wrapWithComments(ed, cfg, startMarker, endMarker, useMultiLineStyle, inline) ==
    IF getText(ed) = <<>>
    THEN Did(<<>>, <<Message("warning", "No text selected")>>)
    ELSE LET startComment == IF useMultiLineStyle THEN BlockCommentOf(cfg, startMarker)
                             ELSE LineCommentOf(cfg, startMarker)
             endComment == IF useMultiLineStyle THEN BlockCommentOf(cfg, endMarker)
                           ELSE LineCommentOf(cfg, endMarker)
             indent == IF cfg.preserveIndentation
                       THEN getIndentation(lineAt(ed.document, ed.selection.start))
                       ELSE <<>>
             wrappedText ==
                 IF inline
                 THEN startComment \o <<SP>> \o trim(OnOneLine(getText(ed)))
                      \o <<SP>> \o endComment
                 ELSE IF cfg.addEmptyLines
                 THEN indent \o startComment \o <<NL>> \o getText(ed) \o <<NL>>
                      \o indent \o endComment
                 ELSE indent \o startComment \o <<NL>> \o getText(ed) \o <<NL>>
                      \o indent \o endComment
         IN Did(ReplaceSelection(ed, wrappedText), <<>>)

\* the list of all markers, in the order the function goes through them
Markers(cfg) ==
    <<cfg.multiLineStart, cfg.multiLineEnd,
      cfg.productionOnlyStart, cfg.productionOnlyEnd,
      cfg.developmentOnlyStart, cfg.developmentOnlyEnd,
      cfg.testOnlyStart, cfg.testOnlyEnd,
      cfg.debugStart, cfg.debugEnd,
      cfg.singleLineMarker>>

\* one turn of markers.forEach: the block comments of the marker replaced
\* by '', then its line comments
EraseMarker(text, marker) ==
    Only({Only({Replace(t, Matches("markerLine", t, token), <<>>) :
                t \in {Replace(text, Matches("markerBlock", text, token), <<>>)}}) :
          token \in {ExtAtoms(escapeRegexExt(marker))}})

RECURSIVE EraseMarkers(_, _)
EraseMarkers(text, markers) ==
    IF markers = <<>> THEN text
    ELSE Only({EraseMarkers(cleanedText, Tail(markers)) :
               cleanedText \in {EraseMarker(text, Head(markers))}})

\* .split('\n').map(line => line.trim()).filter(line => line.length > 0).join('\n')
TrimmedLines(text) ==
    JoinLines(SelectSeq([k \in DOMAIN SplitLines(text) |-> trim(SplitLines(text)[k])],
                        LAMBDA line : line # <<>>))

removeExistingMarkers(ed, cfg) ==
    IF getText(ed) = <<>>
    THEN Did(<<>>, <<Message("warning", "No text selected")>>)
    ELSE IF \E k \in DOMAIN Markers(cfg) : ~Compiles(Markers(cfg)[k])
    \* the exception leaves the function before editor.edit; nothing is shown
    THEN Did(<<>>, <<Message("throws", "SyntaxError: Invalid regular expression")>>)
    ELSE Did(ReplaceSelection(ed, TrimmedLines(EraseMarkers(getText(ed), Markers(cfg)))),
             <<Message("information", "Removal markers cleaned up")>>)

\* \w of blockPattern
IsWord(c) == c \in {"x", "L", "R", "S", "E", "P", "V", "T", "D"}

RECURSIVE SkipWord(_, _)
SkipWord(s, i) == IF i <= Len(s) /\ IsWord(s[i]) THEN SkipWord(s, i + 1) ELSE i

\* /\*\s*(\w+)\s*\*/ anchored at i: [next, marker], next = 0 if none
WordCommentAt(s, i) ==
    IF ~HasAt(s, i, <<"/", "*">>) THEN [next |-> 0, marker |-> <<>>]
    ELSE Only({IF w > j /\ HasAt(s, SkipSpace(s, w), <<"*", "/">>)
               THEN [next |-> SkipSpace(s, w) + 2, marker |-> SubSeq(s, j, w - 1)]
               ELSE [next |-> 0, marker |-> <<>>] :
               <<j, w>> \in {<<q, SkipWord(s, q)>> : q \in {SkipSpace(s, i + 2)}}})

\* selectedText.match(blockPattern): the leftmost block comment with a word
\* in it that has another one after it, the nearest one ([\s\S]*?);
\* [found, 1, 2, 3] with the three capture groups
blockPattern(s) ==
    LET opens == {i \in 1..Len(s) :
                    /\ WordCommentAt(s, i).next # 0
                    /\ \E j \in WordCommentAt(s, i).next..Len(s) :
                          WordCommentAt(s, j).next # 0}
    IN IF opens = {} THEN [found |-> FALSE]
       ELSE Only({[found |-> TRUE, g1 |-> a.marker,
                   g2 |-> SubSeq(s, a.next, j - 1),
                   g3 |-> WordCommentAt(s, j).marker] :
                  <<a, j>> \in {<<o, Min({k \in o.next..Len(s) :
                                             WordCommentAt(s, k).next # 0})>> :
                                o \in {WordCommentAt(s, Min(opens))}}})

convertToInline(ed, cfg) ==
    IF getText(ed) = <<>>
    THEN Did(<<>>, <<Message("warning", "No text selected")>>)
    ELSE Only({
        IF match.found
        THEN Did(ReplaceSelection(ed,
                     BlockCommentOf(cfg, match.g1) \o <<SP>>
                     \o OnOneLine(trim(match.g2)) \o <<SP>>
                     \o BlockCommentOf(cfg, match.g3)),
                 <<Message("information", "Converted to inline format")>>)
        ELSE Did(<<>>, <<Message("warning",
                     "Selected text does not appear to be a removal block")>>) :
        match \in {blockPattern(getText(ed))}})

\* the lines selection.start.line .. selection.end.line as the positions of
\* their ends, from the line that starts at i on
RECURSIVE LineEndsFrom(_, _, _)
LineEndsFrom(s, i, last) ==
    Only({IF e >= LineEnd(s, last) THEN <<e>>
          ELSE <<e>> \o LineEndsFrom(s, e + 1, last) :
          e \in {LineEnd(s, i)}})

\* faulty variant of markLine: only the line the selection starts on is
\* marked
markFirstLine(ed, cfg) ==
    Did(<<<<[start |-> LineEnd(ed.document, ed.selection.start),
             end |-> LineEnd(ed.document, ed.selection.start),
             text |-> Spacing(cfg) \o <<"/", "/">> \o Spacing(cfg) \o cfg.singleLineMarker]>>>>,
        <<Message("information", "Line(s) marked for removal")>>)

\* faulty variant of markLine: one editor.edit for every line
markLineByLine(ed, cfg) ==
    LET marker == Spacing(cfg) \o <<"/", "/">> \o Spacing(cfg) \o cfg.singleLineMarker
        ends == IF ed.selection.start # ed.selection.end
                THEN LineEndsFrom(ed.document, ed.selection.start, ed.selection.end)
                ELSE <<LineEnd(ed.document, ed.selection.end)>>
    IN Did([k \in DOMAIN ends |->
               <<[start |-> ends[k] + (k - 1) * Len(marker),
                  end |-> ends[k] + (k - 1) * Len(marker), text |-> marker]>>],
           <<Message("information", "Line(s) marked for removal")>>)

\* the body of the codeRemoval.markLine command: one editor.edit that
\* inserts the marker at the end of every line of the selection, or of the
\* cursor's line
markLine(ed, cfg) ==
    LET marker == Spacing(cfg) \o <<"/", "/">> \o Spacing(cfg) \o cfg.singleLineMarker
        ends == IF ed.selection.start # ed.selection.end
                THEN LineEndsFrom(ed.document, ed.selection.start, ed.selection.end)
                ELSE <<LineEnd(ed.document, ed.selection.end)>>
    IN Did(<<[k \in DOMAIN ends |-> [start |-> ends[k], end |-> ends[k], text |-> marker]]>>,
           <<Message("information", "Line(s) marked for removal")>>)

\* the registered commands: vscode.window.activeTextEditor is checked, then
\* the function runs, then the wrap commands report success
Commands ==
    {"wrapMultiLine", "wrapSingleLine", "wrapInlineMultiLine",
     "wrapProductionOnly", "wrapDevelopmentOnly", "wrapTestOnly",
     "wrapDebugBlock", "markLine", "removeExistingMarkers", "convertToInline"}

WrapCommand(ed, call, done) ==
    Did(call.edits, call.messages \o <<Message("information", done)>>)

Command(name, ed, cfg) ==
    IF ~ed.open THEN Did(<<>>, <<Message("error", "No active editor found")>>)
    ELSE CASE name = "wrapMultiLine" ->
                WrapCommand(ed, wrapWithComments(ed, cfg, cfg.multiLineStart,
                                cfg.multiLineEnd, TRUE, FALSE),
                            "Code wrapped with multi-line removal comments")
           [] name = "wrapSingleLine" ->
                WrapCommand(ed, wrapWithComments(ed, cfg, cfg.multiLineStart,
                                cfg.multiLineEnd, FALSE, FALSE),
                            "Code wrapped with single-line removal comments")
           [] name = "wrapInlineMultiLine" ->
                WrapCommand(ed, wrapWithComments(ed, cfg, cfg.multiLineStart,
                                cfg.multiLineEnd, TRUE, TRUE),
                            "Code wrapped inline with removal comments")
           [] name = "wrapProductionOnly" ->
                WrapCommand(ed, wrapWithComments(ed, cfg, cfg.productionOnlyStart,
                                cfg.productionOnlyEnd, TRUE, FALSE),
                            "Code marked as production-only")
           [] name = "wrapDevelopmentOnly" ->
                WrapCommand(ed, wrapWithComments(ed, cfg, cfg.developmentOnlyStart,
                                cfg.developmentOnlyEnd, TRUE, FALSE),
                            "Code marked as development-only")
           [] name = "wrapTestOnly" ->
                WrapCommand(ed, wrapWithComments(ed, cfg, cfg.testOnlyStart,
                                cfg.testOnlyEnd, TRUE, FALSE),
                            "Code marked as test-only")
           [] name = "wrapDebugBlock" ->
                WrapCommand(ed, wrapWithComments(ed, cfg, cfg.debugStart,
                                cfg.debugEnd, TRUE, FALSE),
                            "Code wrapped as debug block")
           [] name = "markLine" -> markLine(ed, cfg)
           [] name = "removeExistingMarkers" -> removeExistingMarkers(ed, cfg)
           [] name = "convertToInline" -> convertToInline(ed, cfg)

\* the document after one edit transaction; the replacements refer to the
\* document as it was, in ascending order
RECURSIVE ApplyFrom(_, _, _)
ApplyFrom(doc, ops, i) ==
    IF ops = <<>> THEN SubSeq(doc, i, Len(doc))
    ELSE SubSeq(doc, i, Head(ops).start - 1) \o Head(ops).text
         \o ApplyFrom(doc, Tail(ops), Head(ops).end)

RECURSIVE ApplyEdits(_, _)
ApplyEdits(doc, edits) ==
    IF edits = <<>> THEN doc
    ELSE ApplyEdits(ApplyFrom(doc, Head(edits), 1), Tail(edits))

\* growth of the text before position p through the replacements
RECURSIVE Shift(_, _)
Shift(ops, p) ==
    IF ops = <<>> THEN 0
    ELSE (IF Head(ops).end <= p
          THEN Len(Head(ops).text) - (Head(ops).end - Head(ops).start) ELSE 0)
         + Shift(Tail(ops), p)

\* the selection after a transaction: a replaced selection becomes the text
\* put in its place; text inserted elsewhere moves the selection's ends
SelectionAfter(sel, ops) ==
    IF Len(ops) = 1 /\ ops[1].start = sel.start /\ ops[1].end = sel.end
    THEN [start |-> sel.start, end |-> sel.start + Len(ops[1].text)]
    ELSE [start |-> sel.start + Shift(ops, sel.start - 1),
          end |-> sel.end + Shift(ops, sel.end)]

RECURSIVE SelectionAfterAll(_, _)
SelectionAfterAll(sel, edits) ==
    IF edits = <<>> THEN sel
    ELSE SelectionAfterAll(SelectionAfter(sel, Head(edits)), Tail(edits))

\* the user runs a command
Run(name) ==
    /\ \E did \in {Command(name, editor, settings)} :
          /\ editor' = [editor EXCEPT
                           !.document = ApplyEdits(editor.document, did.edits),
                           !.selection = SelectionAfterAll(editor.selection, did.edits)]
          /\ issued' = [command |-> name, n |-> issued.n + 1,
                        selected |-> getText(editor),
                        edits |-> did.edits, messages |-> did.messages]
    /\ UNCHANGED <<settings, opened>>
    /\ UNCHANGED pluginVars

\* the commands as steps of a session: one command, or a wrap and then the
\* erase of the markers of what the wrap left selected
Idle == issued.n = 0

WrapNames ==
    {"wrapMultiLine", "wrapSingleLine", "wrapInlineMultiLine",
     "wrapProductionOnly", "wrapDevelopmentOnly", "wrapTestOnly", "wrapDebugBlock"}

Wrapped == issued.n = 1 /\ issued.command \in WrapNames /\ issued.edits # <<>>

WrapMultiLine == Idle /\ Run("wrapMultiLine")
WrapSingleLine == Idle /\ Run("wrapSingleLine")
WrapInlineMultiLine == Idle /\ Run("wrapInlineMultiLine")
WrapProductionOnly == Idle /\ Run("wrapProductionOnly")
WrapDevelopmentOnly == Idle /\ Run("wrapDevelopmentOnly")
WrapTestOnly == Idle /\ Run("wrapTestOnly")
WrapDebugBlock == Idle /\ Run("wrapDebugBlock")
MarkLine == Idle /\ Run("markLine")
RemoveExistingMarkers == Idle /\ Run("removeExistingMarkers")
EraseWrapped == Wrapped /\ Run("removeExistingMarkers")
ConvertToInline == Idle /\ Run("convertToInline")

\* an open editor: a document made of three parts, the middle one selected
Selecting(before, selected, after) ==
    [open |-> TRUE, document |-> before \o selected \o after,
     selection |-> [start |-> Len(before) + 1,
                    end |-> Len(before) + Len(selected) + 1]]

\* the settings a user may have changed from the defaults
SomeSettings ==
    {[DefaultSettings EXCEPT !.useSpacing = u, !.preserveIndentation = p] :
     u \in BOOLEAN, p \in BOOLEAN}

\* no build is running
NotBuilding ==
    /\ env = [NODE_ENV |-> "production", VITEST |-> "undefined"]
    /\ predicate = FALSE
    /\ code = <<>>
    /\ id = SourceFile
    /\ NotServed

\* SpecEditor: a document of plain code, any part of it selected or no
\* editor open, and one command
CodePieces == {<<"x">>, <<SP>>, <<NL>>}

\* what stands before the selection: nothing or a line of code, then
\* indentation and code on the selection's first line; and after it
Befores ==
    {above \o t : above \in {<<>>, <<"x", NL>>},
                  t \in TextsOf({<<SP>>, <<"x">>}, MaxBefore)}

Afters == {<<>>, <<"x">>, <<NL, "x">>}

\* selections of two and three lines, the later lines indented
IndentedLines ==
    {<<"x", NL, SP, "x">>, <<SP, "x", NL, SP, SP, "x">>,
     <<"x", NL, SP, SP, "x", NL, "x">>}

InitEditor ==
    /\ NotBuilding
    /\ config = removeCodePlugin(<<>>)
    /\ settings \in SomeSettings
    /\ editor \in {NoEditor}
          \cup {Selecting(before, selected, after) :
                  before \in Befores,
                  selected \in TextsOf(CodePieces, MaxSelected) \cup IndentedLines,
                  after \in Afters}
    /\ issued = NothingIssued
    /\ opened = editor

NextEditor ==
    \/ WrapMultiLine \/ WrapSingleLine \/ WrapInlineMultiLine
    \/ WrapProductionOnly \/ WrapDevelopmentOnly \/ WrapTestOnly
    \/ WrapDebugBlock \/ MarkLine \/ RemoveExistingMarkers \/ ConvertToInline

SpecEditor == InitEditor /\ [][NextEditor]_vars

\* SpecRoundTrip: a selection of plain code is wrapped, then the markers of
\* the wrapped text are erased
InitRoundTrip ==
    /\ NotBuilding
    /\ config = removeCodePlugin(<<>>)
    /\ settings \in {[chosen EXCEPT !.addEmptyLines = e] :
                      chosen \in SomeSettings, e \in BOOLEAN}
    /\ editor \in {Selecting(before, selected, <<>>) :
                    before \in {<<>>, <<SP>>},
                    selected \in TextsOf(CodePieces, MaxWrapped)}
    /\ issued = NothingIssued
    /\ opened = editor

NextRoundTrip ==
    \/ WrapMultiLine \/ WrapSingleLine \/ WrapInlineMultiLine
    \/ WrapProductionOnly \/ WrapDevelopmentOnly \/ WrapTestOnly
    \/ WrapDebugBlock \/ EraseWrapped

SpecRoundTrip == InitRoundTrip /\ [][NextRoundTrip]_vars

\* ------------------------------------------------- the configure command
\* what showInputBox, showQuickPick and showWarningMessage resolve to: the
\* text entered or the item picked, or undefined when the user dismisses
Typed(text) == [typed |-> TRUE, text |-> text]
Dismissed == [typed |-> FALSE, text |-> <<>>]
Picked(item) == [typed |-> TRUE, text |-> item]
NoPick == [typed |-> FALSE, text |-> ""]

\* faulty variant of Given: if (answer !== undefined)
GivenOrEmpty(answer) == answer.typed

\* if (answer): undefined and '' are falsy, every other string is truthy
Given(answer) == answer.typed /\ answer.text # <<>>

\* workspaceConfig.update(key, value, ConfigurationTarget.Global)
update(cfg, key, value) == [cfg EXCEPT ![key] = value]

PatternChoices ==
    [multiLineStart |-> "Change Multi-line Start Pattern",
     multiLineEnd |-> "Change Multi-line End Pattern",
     singleLineMarker |-> "Change Single-line Marker"]

PairChoices ==
    [productionOnly |-> "Change Production-Only Patterns",
     developmentOnly |-> "Change Development-Only Patterns",
     testOnly |-> "Change Test-Only Patterns",
     debug |-> "Change Debug Patterns"]

PairKeys ==
    [productionOnly |-> <<"productionOnlyStart", "productionOnlyEnd">>,
     developmentOnly |-> <<"developmentOnlyStart", "developmentOnlyEnd">>,
     testOnly |-> <<"testOnlyStart", "testOnlyEnd">>,
     debug |-> <<"debugStart", "debugEnd">>]

ToggleChoices ==
    [useSpacing |-> "Toggle Spacing",
     preserveIndentation |-> "Toggle Indentation Preservation",
     addEmptyLines |-> "Toggle Empty Lines"]

ToggleMessages ==
    [useSpacing |-> <<"Spacing enabled", "Spacing disabled">>,
     preserveIndentation |-> <<"Indentation preservation enabled",
                               "Indentation preservation disabled">>,
     addEmptyLines |-> <<"Empty lines enabled", "Empty lines disabled">>]

Configured(cfg, messages) == [settings |-> cfg, messages |-> messages]

\* the cases of one start or end pattern and of the single-line marker: one
\* input box, the setting updated if (answer)
ChangePattern(cfg, key, answer) ==
    IF Given(answer) THEN Configured(update(cfg, key, answer.text), <<>>)
    ELSE Configured(cfg, <<>>)

\* the cases of the four families: the end pattern is asked for only after
\* a start pattern was given, and the start pattern is stored before
ChangePatterns(cfg, family, first, second) ==
    IF ~Given(first) THEN Configured(cfg, <<>>)
    ELSE IF Given(second)
    THEN Configured(update(update(cfg, PairKeys[family][1], first.text),
                           PairKeys[family][2], second.text), <<>>)
    ELSE Configured(update(cfg, PairKeys[family][1], first.text), <<>>)

\* the three toggles
ToggleSetting(cfg, key) ==
    Configured(update(cfg, key, ~cfg[key]),
               <<Message("information",
                         ToggleMessages[key][IF ~cfg[key] THEN 1 ELSE 2])>>)

\* 'Change Default Style'
ChangeStyle(cfg, styleChoice) ==
    IF styleChoice.typed
    THEN Configured(update(cfg, "defaultCommentStyle", styleChoice.text), <<>>)
    ELSE Configured(cfg, <<>>)

\* 'Reset to Defaults'
ResetToDefaults(cfg, confirmReset) ==
    IF confirmReset = Picked("Yes")
    THEN Configured(DefaultSettings,
                    <<Message("information", "Settings reset to defaults")>>)
    ELSE Configured(cfg, <<>>)

\* the configure command after its quick pick; answers: what the dialogs
\* of the chosen case resolve to, in the order they are shown
configure(cfg, choice, answers) ==
    IF ~choice.typed THEN Configured(cfg, <<>>)
    ELSE IF \E key \in DOMAIN PatternChoices : PatternChoices[key] = choice.text
    THEN ChangePattern(cfg,
             CHOOSE key \in DOMAIN PatternChoices : PatternChoices[key] = choice.text,
             answers[1])
    ELSE IF \E family \in DOMAIN PairChoices : PairChoices[family] = choice.text
    THEN ChangePatterns(cfg,
             CHOOSE family \in DOMAIN PairChoices : PairChoices[family] = choice.text,
             answers[1], answers[2])
    ELSE IF \E key \in DOMAIN ToggleChoices : ToggleChoices[key] = choice.text
    THEN ToggleSetting(cfg,
             CHOOSE key \in DOMAIN ToggleChoices : ToggleChoices[key] = choice.text)
    ELSE IF choice.text = "Change Default Style" THEN ChangeStyle(cfg, answers[1])
    ELSE ResetToDefaults(cfg, answers[1])

\* the user runs the configure command and answers its dialogs
Configure(choice, answers) ==
    /\ issued.n < MaxConfigured
    /\ \E did \in {configure(settings, choice, answers)} :
          /\ settings' = did.settings
          /\ issued' = [command |-> "configure", n |-> issued.n + 1,
                        selected |-> <<>>, edits |-> <<>>,
                        messages |-> did.messages]
    /\ UNCHANGED <<editor, opened>>
    /\ UNCHANGED pluginVars

\* what the user may enter in an input box: nothing, a space, a token
Entries == {Dismissed, Typed(<<>>), Typed(<<SP>>), Typed(<<"Z">>)}

DismissPick == Configure(NoPick, <<>>)

EnterPattern ==
    \E key \in DOMAIN PatternChoices, answer \in Entries :
        Configure(Picked(PatternChoices[key]), <<answer>>)

EnterPatterns ==
    \E family \in DOMAIN PairChoices, first \in Entries, second \in Entries :
        Configure(Picked(PairChoices[family]), <<first, second>>)

Toggle ==
    \E key \in DOMAIN ToggleChoices : Configure(Picked(ToggleChoices[key]), <<>>)

PickStyle ==
    \E styleChoice \in {NoPick, Picked("multiline"), Picked("singleline")} :
        Configure(Picked("Change Default Style"), <<styleChoice>>)

Reset ==
    \E confirmReset \in {NoPick, Picked("Yes"), Picked("No")} :
        Configure(Picked("Reset to Defaults"), <<confirmReset>>)

\* SpecConfigure: sessions of the configure command, from the default
\* settings or from settings with tokens of the user's own
InitConfigure ==
    /\ NotBuilding
    /\ config = removeCodePlugin(<<>>)
    /\ settings \in {DefaultSettings,
                     [DefaultSettings EXCEPT !.multiLineStart = <<"Z", "S">>,
                                             !.debugEnd = <<"Z">>,
                                             !.useSpacing = FALSE]}
    /\ editor = NoEditor
    /\ issued = NothingIssued
    /\ opened = editor

NextConfigure ==
    DismissPick \/ EnterPattern \/ EnterPatterns \/ Toggle \/ PickStyle \/ Reset

SpecConfigure == InitConfigure /\ [][NextConfigure]_vars

\* SpecMarkers: the selection already holds comments; it is converted to
\* the inline form, or its markers are erased
BodyPieces == {<<"x">>, <<NL, SP>>, BlockComment(<<"x">>)}

\* a region and near-regions: code or nothing around an opening comment, a
\* body on the same line or on lines of its own, and a closing comment of
\* the same family, of another family, or none
RegionTexts ==
    {pre \o open \o glue \o body \o glue \o close \o post :
        <<pre, post>> \in {<<<<>>, <<>>>>, <<<<"x">>, <<>>>>, <<<<>>, <<"x">>>>},
        open \in {BlockComment(<<"R", "S">>), SpacedComment(<<"R", "S">>),
                  BlockComment(<<"D", "S">>)},
        glue \in {<<>>, <<NL>>},
        body \in TextsOf(BodyPieces, MaxBodyPieces),
        close \in {BlockComment(<<"R", "E">>), SpacedComment(<<"R", "E">>),
                   BlockComment(<<"D", "E">>), <<>>}}

\* code with marker comments and pieces of comments in it
ErasePieces ==
    {<<"x">>, <<NL>>, BlockComment(<<"R", "S">>), <<"/", "/", SP, "R">>,
     <<"/", "*", "R", "S">>, <<"*", "/">>, BlockComment(<<"D", "S">>)}

InitMarkers ==
    /\ NotBuilding
    /\ config = removeCodePlugin(<<>>)
    /\ settings \in {[DefaultSettings EXCEPT !.useSpacing = u] : u \in BOOLEAN}
    /\ editor \in {Selecting(<<>>, selected, <<>>) :
                    selected \in RegionTexts \cup TextsOf(ErasePieces, MaxErasePieces)}
    /\ issued = NothingIssued
    /\ opened = editor

NextMarkers == ConvertToInline \/ RemoveExistingMarkers

SpecMarkers == InitMarkers /\ [][NextMarkers]_vars

\* SpecWriter: a command writes markers of one family into a document of
\* code and ordinary comments, then a production build whose plugin is
\* configured with the tokens of that family takes the document
FamilyPatterns(cfg, start, end) ==
    [multiLineStart |-> start, multiLineEnd |-> end,
     singleLineStart |-> start, singleLineEnd |-> end,
     singleLine |-> cfg.singleLineMarker]

Families(cfg) ==
    {FamilyPatterns(cfg, cfg.multiLineStart, cfg.multiLineEnd),
     FamilyPatterns(cfg, cfg.productionOnlyStart, cfg.productionOnlyEnd),
     FamilyPatterns(cfg, cfg.developmentOnlyStart, cfg.developmentOnlyEnd),
     FamilyPatterns(cfg, cfg.testOnlyStart, cfg.testOnlyEnd),
     FamilyPatterns(cfg, cfg.debugStart, cfg.debugEnd)}

\* the tokens a command writes
WriterTokens(name, cfg) ==
    CASE name = "wrapProductionOnly" ->
           FamilyPatterns(cfg, cfg.productionOnlyStart, cfg.productionOnlyEnd)
      [] name = "wrapDevelopmentOnly" ->
           FamilyPatterns(cfg, cfg.developmentOnlyStart, cfg.developmentOnlyEnd)
      [] name = "wrapTestOnly" ->
           FamilyPatterns(cfg, cfg.testOnlyStart, cfg.testOnlyEnd)
      [] name = "wrapDebugBlock" ->
           FamilyPatterns(cfg, cfg.debugStart, cfg.debugEnd)
      [] OTHER -> FamilyPatterns(cfg, cfg.multiLineStart, cfg.multiLineEnd)

WriterPieces == {<<"x">>, <<SP>>, <<NL>>, <<"/", "/">>}

InitWriter ==
    /\ NotBuilding
    /\ settings \in SomeSettings
    /\ \E patterns \in Families(settings) :
          config = removeCodePlugin([patterns |-> patterns])
    /\ editor \in {Selecting(before, selected, after) :
                    before \in {<<>>, <<SP>>, <<"x">>, <<"x", NL, SP>>},
                    selected \in TextsOf(WriterPieces, MaxMarked),
                    after \in Afters}
    /\ issued = NothingIssued
    /\ opened = editor

Build ==
    /\ issued.n = 1
    /\ calls = 0
    /\ config.patterns = WriterTokens(issued.command, settings)
    /\ Serve(editor.document, SourceFile)
    /\ reapplied' = FALSE

NextWriter ==
    \/ WrapMultiLine \/ WrapSingleLine \/ WrapInlineMultiLine
    \/ WrapProductionOnly \/ WrapDevelopmentOnly \/ WrapTestOnly
    \/ WrapDebugBlock \/ MarkLine \/ Build

SpecWriter == InitWriter /\ [][NextWriter]_vars

\* SpecTokens: the debug family's start token is set to a text with
\* characters that are special in regular expressions, in the extension and
\* in the plugin; a debug wrap is written, then the build takes the
\* document or the markers of the wrapped span are erased
SpecialTokens ==
    {<<"D", "S">>, <<"D", ".", "S">>, <<"D", ".", ".", "S">>, <<"D", "S", "+">>}

InitTokens ==
    /\ NotBuilding
    /\ settings \in {[DefaultSettings EXCEPT !.debugStart = token, !.useSpacing = u] :
                      token \in SpecialTokens, u \in BOOLEAN}
    /\ config = removeCodePlugin([patterns |->
                    FamilyPatterns(settings, settings.debugStart, settings.debugEnd)])
    /\ editor \in {Selecting(<<>>, selected, after) :
                    selected \in TextsOf(CodePieces, MaxMarked),
                    after \in {<<>>, <<NL, "x">>}}
    /\ issued = NothingIssued
    /\ opened = editor

NextTokens == WrapDebugBlock \/ EraseWrapped \/ Build

SpecTokens == InitTokens /\ [][NextTokens]_vars

\* ------------------------------------------------------------- the claims
\* C1: idempotence of strip.  Running the transform on the text a first
\* transform returned removes nothing further: the second call leaves the
\* text as it is (it returns null, or a text equal to the one it was given).
Idempotence ==
    reapplied => (result.kind = "null" \/ result.code = code)

\* C6: for an included file with the gate true, the call returns a
\* rewritten text exactly when one of the three regular expressions matches
\* the input; otherwise it returns null and the text was left as it is, blank
\* line runs included (no cleanup ran).
ChangedIffRegionRemoved ==
    Ran =>
        /\ Rewrote <=> \E regex \in {"multiLine", "singleLineBlock", "singleLine"} :
                           Matches(regex, code, Tokens) # <<>>
        /\ ~Rewrote => result.kind = "null" /\ stages[4] = code

\* C6 witness: an included file, gate true, no region, a run of blank lines
\* that the call left alone
UntouchedBlankRun ==
    /\ Ran
    /\ result.kind = "null"
    /\ CollapseRuns(code) # code

\* the spans of s are regions opened by a comment for start and closed by
\* the first comment for end that begins after it; CommentAt is the block or
\* the line comment matcher
LazyRegions(s, spans, CommentAt(_, _, _), start, end) ==
    \A n \in 1..Len(spans) :
        \E a \in {CommentAt(s, spans[n][1], start)} :
            /\ a # 0
            /\ \E k \in a..(spans[n][2] - 1) :
                  /\ CommentAt(s, k, end) = spans[n][2]
                  /\ \A j \in a..(k - 1) : CommentAt(s, j, end) = 0

\* C7: the block pass removes regions that start at a block comment holding
\* exactly multiLineStart and end with the first block comment holding
\* multiLineEnd after it (lazy), one region per start/end pair, and keeps
\* every character between and around the regions.
BlockPairsLazy ==
    Ran =>
        \E spans \in {Matches("multiLine", code, Tokens)} :
            /\ LazyRegions(code, spans, BlockCommentAt,
                           Tokens.multiLineStart, Tokens.multiLineEnd)
            /\ stages[1] = Outside(code, spans)

\* C7 witness: two block pairs removed separately, the code between them
\* kept
TwoBlockPairs ==
    /\ Ran
    /\ \E spans \in {Matches("multiLine", code, Tokens)} :
          /\ Len(spans) = 2
          /\ spans[1][2] < spans[2][1]
          /\ stages[1] = SubSeq(code, spans[1][2], spans[2][1] - 1)
          /\ stages[1] # <<>>

\* C8: the line-pair pass removes regions that start at a line comment
\* holding singleLineStart and end right after the first line comment holding
\* singleLineEnd after it; everything in between goes, whatever it is; the
\* text before the start comment and after the end token stays.
LinePairsLazy ==
    Ran =>
        \E spans \in {Matches("singleLineBlock", stages[1], Tokens)} :
            /\ LazyRegions(stages[1], spans, LineCommentAt,
                           Tokens.singleLineStart, Tokens.singleLineEnd)
            /\ stages[2] = Outside(stages[1], spans)

\* C8 witness: a line pair whose body holds a line of plain code, removed
\* with its body while the code after the end token stays
LinePairWithBody ==
    /\ Ran
    /\ \E spans \in {Matches("singleLineBlock", stages[1], Tokens)} :
          /\ Len(spans) = 1
          /\ \E k \in spans[1][1]..(spans[1][2] - 2) :
                stages[1][k] = NL /\ stages[1][k + 1] = "x"
          /\ spans[1][2] <= Len(stages[1])
          /\ stages[2] = SubSeq(stages[1], 1, spans[1][1] - 1)
                          \o SubSeq(stages[1], spans[1][2], Len(stages[1]))
          /\ stages[2] # <<>>

\* no line next to a removed span is blank: the lines just before the first
\* and just after the last line of every span hold code
NoBlankLineBeside(s, spans) ==
    \A n \in 1..Len(spans) :
        \A m \in {LineNo(s, spans[n][1]) - 1, LineNo(s, spans[n][2] - 1) + 1} :
            m \in 1..Len(SplitLines(s)) => ~IsBlank(SplitLines(s)[m])

\* C2 as claimed: text outside the removed regions comes out unchanged; in
\* particular, when no blank line is next to a removed region, the returned
\* text is the input with the regions cut out and nothing else altered.
\* Stated for calls in which only the line-marker pass matched, so that the
\* regions are spans of the input.
KeptTextUntouched ==
    (Rewrote /\ stages[2] = code
       /\ NoBlankLineBeside(code, Matches("singleLine", code, Tokens)))
    => result.code = stages[3]

\* C2 (amended): the characters left by the three passes are characters of
\* the input in their original order, and the returned text differs from
\* them only in whitespace runs that hold three or more newlines, each
\* rewritten to two newlines wherever it stands.
KeptTextModuloBlankRuns ==
    Rewrote =>
        /\ IsSubsequence(stages[3], code)
        /\ result.code = CollapseRuns(stages[3])

\* C2 witness: a rewrite that also collapsed a blank-line run of kept text
\* that no removed region touches
KeptBlankRunCollapsed ==
    /\ Rewrote
    /\ stages[2] = code
    /\ NoBlankLineBeside(code, Matches("singleLine", code, Tokens))
    /\ result.code # stages[3]

\* C9 as claimed: a line marker deletes the whole line, so that the output is
\* the input's lines without the marked ones ("a(); // BUILD_REMOVE\nb();"
\* gives exactly "b();").  Stated for calls in which only the line-marker
\* pass matched.
MarkedLinesDeleted ==
    (Rewrote /\ stages[2] = code) =>
        result.code = JoinLines(SelectSeq(SplitLines(code),
                          LAMBDA line : ~LineHasMarker(line, Tokens.singleLine)))

\* C10 as claimed: after a rewrite the returned text has no two consecutive
\* blank (empty or whitespace-only) lines, anywhere.
NoBlankLineRuns ==
    Rewrote =>
        \A n \in 1..(Len(TextLines(result.code)) - 1) :
            ~(IsBlank(TextLines(result.code)[n])
              /\ IsBlank(TextLines(result.code)[n + 1]))

\* the Environment Gate as its three rules give it: the predicate's answer
\* when one is configured; else, with the test-mode signal set, whether
\* "test" is listed; else whether the current NODE_ENV is set and listed
GateRules(cfg, e, answer) ==
    IF "isTargetEnvironment" \in DOMAIN cfg THEN answer
    ELSE IF e.VITEST = "true" THEN "test" \in cfg.environments
    ELSE e.NODE_ENV # "undefined" /\ e.NODE_ENV \in cfg.environments

\* the last call has been made under the environment and the predicate's
\* answer of this state
JustCalled == calls > 0 /\ fresh

HasBlockPair(s) == Matches("multiLine", s, Tokens) # <<>>

\* C3: identity when inactive.  A call made while the Environment Gate is
\* false returns unchanged, null from the Vite plugin and undefined from the
\* esbuild plugin, whatever the text holds.
IdentityWhenInactive ==
    (JustCalled /\ ~GateRules(config, env, predicate)) =>
        result = Unchanged(IF host = "vite" THEN "null" ELSE "undefined")

\* C3 witness: a text with a complete block pair in an included file, handed
\* to the Vite plugin while the gate is false and returned as null
MarkedTextPassedThrough ==
    /\ JustCalled
    /\ host = "vite"
    /\ ~GateRules(config, env, predicate)
    /\ gate = "false"
    /\ HasBlockPair(code)
    /\ result = Unchanged("null")

\* C4: gate resolution order.  Whenever a handler evaluates the environment
\* check, its outcome is the one the three rules give, in their order:
\* predicate, then test-mode signal, then NODE_ENV; and a plugin made without
\* options lists exactly production.
GateResolution ==
    /\ (JustCalled /\ gate # "skipped") =>
          ((gate = "true") <=> GateRules(config, env, predicate))
    /\ removeCodePlugin(<<>>).environments = {"production"}

\* C4 witness: the test-mode signal decides against NODE_ENV: NODE_ENV is
\* production and listed, VITEST is set, "test" is not listed, and the check
\* came out false
TestSignalOverridesMode ==
    /\ JustCalled
    /\ ~HasPredicate(config)
    /\ env = [NODE_ENV |-> "production", VITEST |-> "true"]
    /\ config.environments = {"production"}
    /\ gate = "false"

\* C5: the gate is evaluated at every call.  Each call's environment check
\* comes out as the three rules give it for the environment and the
\* predicate's answer at the time of that call, whatever earlier calls of the
\* same plugin instance saw; the call's outcome follows from it (unchanged
\* when false; for the Vite plugin a rewritten text when true and the text
\* has a block pair); and the predicate is called at most once in the call.
GatePerCall ==
    [][(calls' = calls + 1 /\ gate' # "skipped") =>
          /\ (gate' = "true") <=> GateRules(config, env, predicate)
          /\ predCalls' <= 1
          /\ predCalls' = 1 <=> HasPredicate(config)
          /\ gate' = "false" => result'.kind \in {"null", "undefined"}
          /\ (gate' = "true" /\ host' = "vite"
                /\ Matches("multiLine", code', Tokens) # <<>>)
               => result'.kind = "result"]_vars

\* C5 witness: one plugin instance is handed the same file twice; the
\* first call returned null, the environment changed, and the second call
\* returned the stripped text
UnchangedThenStripped ==
    /\ calls = 2
    /\ fresh
    /\ host = "vite"
    /\ previous = [kind |-> "null", code |-> code, id |-> id]
    /\ HasBlockPair(code)
    /\ Rewrote

\* a patterns object is unusable: one of the five tokens is missing or empty
BadTokens(patterns) ==
    \E name \in TokenNames : name \notin DOMAIN patterns \/ patterns[name] = <<>>

\* C11 as claimed: with a missing or empty token, a call that gets past the
\* environment check fails with an error before any pass has run, and
\* returns no rewritten text.
ConfigErrorFailsFast ==
    (calls > 0 /\ gate = "true" /\ BadTokens(config.patterns)) =>
        result = Thrown /\ stages = NoStages

\* the characters of a text that are not white space
NonSpace(s) == SelectSeq(s, LAMBDA c : ~IsSpace(c))

\* the document as it was before and after the selection, and outside the
\* lines the selection touches
BeforeSelection(ed) == SubSeq(ed.document, 1, ed.selection.start - 1)
AfterSelection(ed) == SubSeq(ed.document, ed.selection.end, Len(ed.document))
OutsideSelectedLines(ed) ==
    SubSeq(ed.document, 1, LineStart(ed.document, ed.selection.start) - 1)
    \o SubSeq(ed.document, LineEnd(ed.document, ed.selection.end), Len(ed.document))

\* C12: what a command writes is matched by the batch transform built with
\* the same tokens, with useSpacing on or off and for every style: the
\* build of the written document returns a text that holds the code outside
\* the selection and nothing of the comments and the selection (for
\* mark-line: the code outside the marked lines and nothing of those lines).
WrittenMarkersStripped ==
    (calls = 1 /\ issued.edits # <<>>) =>
        /\ result.kind = "result"
        /\ NonSpace(result.code) =
             IF issued.command = "markLine"
             THEN NonSpace(OutsideSelectedLines(opened))
             ELSE NonSpace(BeforeSelection(opened)) \o NonSpace(AfterSelection(opened))

\* C12 witness: with useSpacing off, a line-comment wrap around a selection
\* that holds an ordinary comment, stripped by the build
UnspacedLineWrapStripped ==
    /\ calls = 1
    /\ ~settings.useSpacing
    /\ issued.command = "wrapSingleLine"
    /\ issued.edits # <<>>
    /\ \E k \in 1..(Len(issued.selected) - 1) :
          issued.selected[k] = "/" /\ issued.selected[k + 1] = "/"
    /\ result.kind = "result"
    /\ NonSpace(result.code) # <<>>

\* the commands that work on the selected text
SelectionNames == WrapNames \cup {"removeExistingMarkers", "convertToInline"}

Warned == \E k \in DOMAIN issued.messages :
              issued.messages[k].level \in {"warning", "error"}

\* C13: a wrap command, erase-markers or convert-to-inline run with no
\* active editor or with an empty selection issues no edit, leaves the
\* document as it was and shows a warning or an error message.
EmptySelectionIsNoOp ==
    (issued.n = 1 /\ issued.command \in SelectionNames
       /\ (~opened.open \/ issued.selected = <<>>)) =>
        /\ issued.edits = <<>>
        /\ editor = opened
        /\ Warned

\* C13 witness: a wrap command run on an empty selection inside a document
NothingToWrap ==
    /\ issued.n = 1
    /\ issued.command \in WrapNames
    /\ opened.open
    /\ opened.document # <<>>
    /\ issued.selected = <<>>
    /\ issued.edits = <<>>
    /\ Warned

\* the comments a wrap command writes
StartCommentOf(name) ==
    IF name = "wrapSingleLine"
    THEN LineCommentOf(settings, WriterTokens(name, settings).multiLineStart)
    ELSE BlockCommentOf(settings, WriterTokens(name, settings).multiLineStart)

EndCommentOf(name) ==
    IF name = "wrapSingleLine"
    THEN LineCommentOf(settings, WriterTokens(name, settings).multiLineEnd)
    ELSE BlockCommentOf(settings, WriterTokens(name, settings).multiLineEnd)

BlockWrapped ==
    /\ issued.n = 1
    /\ issued.command \in WrapNames \ {"wrapInlineMultiLine"}
    /\ issued.edits # <<>>

\* the leading white space of the line the selection began on
FirstLineIndent ==
    IF settings.preserveIndentation
    THEN getIndentation(lineAt(opened.document, opened.selection.start))
    ELSE <<>>

\* C14: after a block-mode wrap of a non-empty selection the line of the
\* document that holds the start comment is the indentation of the
\* selection's first line (none with preserveIndentation off) followed by
\* the start comment, the line that holds the end comment is the same
\* indentation followed by the end comment, and the selected text stands
\* unchanged between the two lines.
BlockWrapOnOwnLines ==
    BlockWrapped =>
        /\ lineAt(editor.document, editor.selection.start)
             = FirstLineIndent \o StartCommentOf(issued.command)
        /\ lineAt(editor.document, editor.selection.end)
             = FirstLineIndent \o EndCommentOf(issued.command)
        /\ SubSeq(editor.document,
                  LineEnd(editor.document, editor.selection.start) + 1,
                  LineStart(editor.document, editor.selection.end) - 2)
             = issued.selected

\* a text with every newline and the white space that follows it turned
\* into one space
RECURSIVE Collapsed(_)
Collapsed(s) ==
    IF s = <<>> THEN <<>>
    ELSE IF Head(s) = NL
         THEN <<SP>> \o Collapsed(SubSeq(s, SkipSpace(s, 2), Len(s)))
         ELSE <<Head(s)>> \o Collapsed(Tail(s))

\* a text without the white space at its two ends
RECURSIVE Stripped(_)
Stripped(s) ==
    IF s = <<>> THEN s
    ELSE IF IsSpace(s[1]) THEN Stripped(Tail(s))
    ELSE IF IsSpace(s[Len(s)]) THEN Stripped(SubSeq(s, 1, Len(s) - 1))
    ELSE s

\* a block comment without and with a space on each side of the token
TightComment(token) == <<"/", "*">> \o token \o <<"*", "/">>

InlineWrapped ==
    /\ issued.n = 1
    /\ issued.command = "wrapInlineMultiLine"
    /\ issued.edits # <<>>

\* C15: the text an inline wrap puts in place of the selection has no
\* newline and is the start comment, a space, the body, a space and the end
\* comment, the body being the selected text with every newline and the
\* white space after it turned into one space and then trimmed; the
\* comments have a space on each side of the token exactly when useSpacing
\* is on.
InlineWrapForm ==
    InlineWrapped =>
        LET text == issued.edits[1][1].text
            body == Stripped(Collapsed(issued.selected))
        IN /\ \A k \in DOMAIN text : text[k] # NL
           /\ text = IF settings.useSpacing
                     THEN SpacedComment(settings.multiLineStart) \o <<SP>> \o body
                          \o <<SP>> \o SpacedComment(settings.multiLineEnd)
                     ELSE TightComment(settings.multiLineStart) \o <<SP>> \o body
                          \o <<SP>> \o TightComment(settings.multiLineEnd)

\* C15 witness: with useSpacing off, an inline wrap of a selection that has
\* an indented second line
InlineWrapOfTwoLines ==
    /\ InlineWrapped
    /\ ~settings.useSpacing
    /\ \E k \in 1..(Len(issued.selected) - 2) :
          /\ issued.selected[k] = NL
          /\ issued.selected[k + 1] = SP
          /\ issued.selected[k + 2] = "x"
    /\ issued.selected[1] = "x"

\* the five families' start and end tokens
FamilyPairs ==
    {<<settings.multiLineStart, settings.multiLineEnd>>,
     <<settings.productionOnlyStart, settings.productionOnlyEnd>>,
     <<settings.developmentOnlyStart, settings.developmentOnlyEnd>>,
     <<settings.testOnlyStart, settings.testOnlyEnd>>,
     <<settings.debugStart, settings.debugEnd>>}

\* where the block comment that ends at the end of s begins, 0 if s does not
\* end with a block comment of one word
LastComment(s) ==
    LET at == {j \in 1..Len(s) : WordCommentAt(s, j).next = Len(s) + 1}
    IN IF at = {} THEN 0 ELSE Min(at)

\* s begins with the block comment of a start marker and ends with the
\* block comment of the end marker of the same family
IsRegion(s) ==
    /\ WordCommentAt(s, 1).next # 0
    /\ LastComment(s) >= WordCommentAt(s, 1).next
    /\ <<WordCommentAt(s, 1).marker, WordCommentAt(s, LastComment(s)).marker>>
          \in FamilyPairs

\* the text between the two comments of a region
RegionBody(s) == SubSeq(s, WordCommentAt(s, 1).next, LastComment(s) - 1)

Converting ==
    /\ issued.n = 1
    /\ issued.command = "convertToInline"
    /\ issued.selected # <<>>

\* C16: convert-to-inline on a selection that does not begin with the block
\* comment of a start marker and end with the block comment of the end
\* marker of the same family issues no edit, leaves the document as it was
\* and shows the 'not a removal block' warning.
ConvertRejectsMismatch ==
    (Converting /\ ~IsRegion(issued.selected)) =>
        /\ issued.edits = <<>>
        /\ editor = opened
        /\ issued.messages =
             <<Message("warning", "Selected text does not appear to be a removal block")>>

\* C17: convert-to-inline on a selection that is a region of more than one
\* line replaces it by one line: the start token in a block comment, a
\* space, the trimmed body with its newlines and the white space after them
\* turned into single spaces, a space, and the end token in a block comment,
\* the comments spaced as useSpacing says.
ConvertKeepsRegion ==
    (Converting /\ IsRegion(issued.selected)
       /\ \E k \in DOMAIN issued.selected : issued.selected[k] = NL) =>
        LET s == issued.selected
            start == WordCommentAt(s, 1).marker
            end == WordCommentAt(s, LastComment(s)).marker
            body == Collapsed(Stripped(RegionBody(s)))
        IN /\ Len(issued.edits) = 1
           /\ getText(editor) =
                IF settings.useSpacing
                THEN SpacedComment(start) \o <<SP>> \o body \o <<SP>> \o SpacedComment(end)
                ELSE TightComment(start) \o <<SP>> \o body \o <<SP>> \o TightComment(end)
           /\ \A k \in DOMAIN getText(editor) : getText(editor)[k] # NL

\* the eleven configured marker tokens
MarkerTokens == {Markers(settings)[k] : k \in DOMAIN Markers(settings)}

\* a block comment or a line comment of a marker token stands in s
HoldsMarkerComment(s) ==
    \E i \in 1..Len(s), token \in MarkerTokens :
        BlockCommentAt(s, i, token) # 0 \/ LineCommentAt(s, i, token) # 0

\* the numbers of the lines of s that a block comment or a line comment of
\* a marker token stands on
MarkerLines(s) ==
    {n \in 1..Len(SplitLines(s)) :
        \E i \in 1..Len(s), token \in MarkerTokens :
            \E next \in {BlockCommentAt(s, i, token), LineCommentAt(s, i, token)} :
                next # 0 /\ LineNo(s, i) <= n /\ n <= LineNo(s, next - 1)}

\* the other lines of s that hold code, trimmed
RECURSIVE CodeLinesFrom(_, _, _)
CodeLinesFrom(lines, marked, n) ==
    IF n > Len(lines) THEN <<>>
    ELSE (IF n \in marked \/ Stripped(lines[n]) = <<>> THEN <<>>
          ELSE <<Stripped(lines[n])>>)
         \o CodeLinesFrom(lines, marked, n + 1)

CodeLines(s) == CodeLinesFrom(SplitLines(s), MarkerLines(s), 1)

Erased ==
    /\ issued.n = 1
    /\ issued.command = "removeExistingMarkers"
    /\ issued.edits # <<>>

\* C18: after erase-markers the selected span holds no block comment and
\* no line comment of any of the eleven marker tokens, and the lines of the
\* span that held code and no marker are all still there, trimmed, in their
\* order.
ErasedSpanIsClean ==
    Erased =>
        /\ ~HoldsMarkerComment(getText(editor))
        /\ IsSubsequence(CodeLines(issued.selected), SplitLines(getText(editor)))

\* the lines of a text that are not blank, as they stand
NonBlankLines(s) == SelectSeq(SplitLines(s), LAMBDA line : ~IsBlank(line))

\* C19: a non-empty selection without marker tokens that is wrapped, in any
\* style, and whose wrapped span then has its markers erased, reads as
\* before but for blank lines: its lines that are not blank are the same,
\* indentation included.
WrapThenEraseRestores ==
    (issued.n = 2 /\ issued.command = "removeExistingMarkers") =>
        NonBlankLines(getText(editor)) = NonBlankLines(getText(opened))

\* C20: a command applies at most one edit transaction to the document,
\* and the transaction of a wrap, of erase-markers and of convert-to-inline
\* is one replacement whose range is the selection the command found.
OneEditPerCommand ==
    [][issued'.n # issued.n =>
        /\ Len(issued'.edits) <= 1
        /\ (issued'.command \in SelectionNames /\ issued'.edits # <<>>) =>
              /\ Len(issued'.edits[1]) = 1
              /\ issued'.edits[1][1].start = editor.selection.start
              /\ issued'.edits[1][1].end = editor.selection.end]_vars

\* C20 witness: mark-line on a selection of several lines, the markers of
\* all the lines inserted in one transaction
LinesMarkedAtOnce ==
    /\ issued.n = 1
    /\ issued.command = "markLine"
    /\ Len(issued.edits) = 1
    /\ Len(issued.edits[1]) >= 2

\* the comment mark-line writes
LineMarkerComment ==
    IF settings.useSpacing
    THEN <<SP, "/", "/", SP>> \o settings.singleLineMarker
    ELSE <<"/", "/">> \o settings.singleLineMarker

LinesMarked ==
    /\ issued.n = 1
    /\ issued.command = "markLine"
    /\ opened.open

\* C21: after mark-line every line of the document from the line the
\* selection starts on to the line it ends on (the cursor's line when the
\* selection is empty) is its former text followed by the line-marker
\* comment, and every other line is as it was.
MarkLineAppends ==
    LinesMarked =>
        LET was == SplitLines(opened.document)
            now == SplitLines(editor.document)
            first == LineNo(opened.document, opened.selection.start)
            last == LineNo(opened.document, opened.selection.end)
        IN /\ Len(now) = Len(was)
           /\ \A n \in DOMAIN was :
                 now[n] = IF first <= n /\ n <= last
                          THEN was[n] \o LineMarkerComment ELSE was[n]

\* C21 witness: a selection that runs over two lines of a document that
\* has a third line, marked
TwoOfThreeLinesMarked ==
    /\ LinesMarked
    /\ opened.selection.start # opened.selection.end
    /\ LineNo(opened.document, opened.selection.end)
         = LineNo(opened.document, opened.selection.start) + 1
    /\ Len(SplitLines(opened.document)) >= 3
    /\ editor.document # opened.document

\* the id ends with an entry of include and holds no entry of exclude
PassesFilters(f) ==
    /\ \E k \in 0..Len(f) : SubSeq(f, k + 1, Len(f)) \in config.include
    /\ \A i \in 1..(Len(f) + 1), j \in 0..Len(f) :
          j >= i - 1 => SubSeq(f, i, j) \notin config.exclude

\* C22: the Vite transform rewrites a file only if its id passes the
\* filters; for any other id it returns null without calling the
\* predicate, whatever the environment and the text are.
FiltersGateTheCore ==
    (calls > 0 /\ host = "vite") =>
        /\ Rewrote => PassesFilters(id)
        /\ ~PassesFilters(id) =>
              /\ result = Unchanged("null")
              /\ stages = NoStages
              /\ predCalls = 0

\* C22 witness: a file with a marked region and an included extension, but
\* under an excluded directory, returned unchanged while the environment
\* asks for removal
ExcludedFileUntouched ==
    /\ calls = 1
    /\ host = "vite"
    /\ GateRules(config, env, predicate)
    /\ HasBlockPair(code)
    /\ \E ext \in config.include : EndsWith(id, ext)
    /\ ~PassesFilters(id)
    /\ result = Unchanged("null")

\* C23: a block-mode wrap made with addEmptyLines on puts another text in
\* place of the selection than the same command does on the same selection
\* with addEmptyLines off and the other settings the same.
AddEmptyLinesShows ==
    (BlockWrapped /\ settings.addEmptyLines) =>
        issued.edits # Command(issued.command, opened,
                               [settings EXCEPT !.addEmptyLines = FALSE]).edits

\* where the block start comments of s stand that have no block end comment
\* after them and share no character with a closed region before them
UnterminatedStarts(s) ==
    {i \in 1..Len(s) :
        /\ BlockCommentAt(s, i, Tokens.multiLineStart) # 0
        /\ \A j \in 1..(i - 1) :
              BlockCommentAt(s, j, Tokens.multiLineEnd) <= i
        /\ \A j \in BlockCommentAt(s, i, Tokens.multiLineStart)..Len(s) :
              BlockCommentAt(s, j, Tokens.multiLineEnd) = 0}

\* C24 as stated: a block start comment without a block end comment after
\* it is matched up to the end of the text, so the text left by the block
\* pass stops before the start comment.
UnterminatedStartConsumesRest ==
    (Ran /\ result # Thrown) =>
        \A i \in UnterminatedStarts(code) : Len(stages[1]) < i

\* C24: a block start comment without a block end comment after it is not
\* matched: the text left by the block pass ends with the start comment and
\* all that followed it, and the call reports nothing.
UnterminatedStartKept ==
    (Ran /\ result # Thrown) =>
        \A i \in UnterminatedStarts(code) :
            EndsWith(stages[1], SubSeq(code, i, Len(code)))

\* C24 witness: code after a block start comment that is never closed, a
\* complete region before it removed
CodeAfterOpenStartKept ==
    /\ calls = 1
    /\ Ran
    /\ Rewrote
    /\ \E i \in UnterminatedStarts(code) :
          /\ code[Len(code)] = "x"
          /\ i > 1
          /\ EndsWith(result.code, SubSeq(code, i, Len(code)))

\* what the engine returns for a text under the instance's patterns
EngineAlone(kind, text) ==
    IF TokenNames \ DOMAIN config.patterns # {} THEN Thrown
    ELSE IF RemoveCode(text, config.patterns).hasChanges
    THEN [kind |-> "result", code |-> RemoveCode(text, config.patterns).transformedCode]
    ELSE Unchanged(kind)

\* the results a call can have when the file is processed alone, by a
\* plugin instance that has served nothing before: they follow from the
\* text, the id, the configuration and the environment of the call (and,
\* for esbuild, from whether the file can be read)
Alone(by, text, f) ==
    IF by = "vite"
    THEN IF PassesFilters(f) /\ GateRules(config, env, predicate)
         THEN {EngineAlone("null", text)} ELSE {Unchanged("null")}
    ELSE IF PassesFilters(f) /\ GateRules(config, env, predicate)
         THEN {EngineAlone("undefined", text), Unchanged("undefined")}
         ELSE {Unchanged("undefined")}

\* C25: whatever calls the plugin instance has served before, and however
\* they ended, the result of a call is the result the same file has when
\* it is processed alone under the environment of the call.
ResultPerFileAlone ==
    [][calls' = calls + 1 => result' \in Alone(host', code', id')]_vars

\* C25 witness: a call that threw, then a call for another file that
\* returns what that file returns alone
FailureThenOtherFile ==
    /\ calls = 2
    /\ fresh
    /\ previous.kind = "throws"
    /\ previous.id # id
    /\ result = Unchanged("null")
    /\ result \in Alone(host, code, id)

\* C26: a token is matched as the literal text the commands write, special
\* characters included, by the build and by erase-markers alike: the build
\* of a wrapped document keeps the code outside the selection and nothing
\* else, and erase-markers on the wrapped span ends without an exception
\* and leaves neither token in the span.
TokensMatchedLiterally ==
    /\ (calls = 1 /\ issued.edits # <<>>) =>
          /\ result.kind = "result"
          /\ NonSpace(result.code) = NonSpace(BeforeSelection(opened))
                                      \o NonSpace(AfterSelection(opened))
    /\ (issued.n = 2 /\ issued.command = "removeExistingMarkers") =>
          /\ \A k \in DOMAIN issued.messages : issued.messages[k].level # "throws"
          /\ ~Includes(getText(editor), settings.debugStart)
          /\ ~Includes(getText(editor), settings.debugEnd)

\* the five tokens are pairwise distinct
DistinctTokens ==
    \A a, b \in DOMAIN config.patterns :
        a # b => config.patterns[a] # config.patterns[b]

\* positions of the line start comments of s, and those of them inside a
\* block pair
LineStarts(s) ==
    {p \in 1..Len(s) : LineCommentAt(s, p, Tokens.singleLineStart) # 0}

InsideBlockPair(s, p) ==
    \E n \in DOMAIN Matches("multiLine", s, Tokens) :
        /\ Matches("multiLine", s, Tokens)[n][1] <= p
        /\ p < Matches("multiLine", s, Tokens)[n][2]

Agree(vite, esbuild) ==
    /\ vite.kind = "null" <=> esbuild.kind = "undefined"
    /\ vite.kind = "result" <=> esbuild.kind = "result"
    /\ vite.kind = "result" => vite.code = esbuild.code

\* the file read failed in the esbuild handler
Unread == host = "esbuild" /\ gate = "true" /\ stages = NoStages

RECURSIVE SegmentsFrom(_, _)
SegmentsFrom(s, i) ==
    IF i > Len(s) THEN <<>>
    ELSE Only({IF e > Len(s) THEN <<SubSeq(s, i, Len(s))>>
               ELSE <<SubSeq(s, i, e)>> \o SegmentsFrom(s, e + 1) :
               e \in {LineEnd(s, i)}})

\* every element of kept, in order, is an element of all
RECURSIVE Among(_, _)
Among(kept, all) ==
    IF kept = <<>> THEN TRUE
    ELSE IF all = <<>> THEN FALSE
    ELSE IF Head(kept) = Head(all) THEN Among(Tail(kept), Tail(all))
    ELSE Among(kept, Tail(all))

\* the line holds "//", optional spaces and the token
HoldsLineComment(line, token) ==
    \E i \in 1..Len(line) :
        /\ HasAt(line, i, <<"/", "/">>)
        /\ \E j \in (i + 2)..(Len(line) + 1) :
             /\ \A k \in (i + 2)..(j - 1) : line[k] = SP
             /\ HasAt(line, j, token)

HoldsAnyLineComment(text, token) ==
    \E k \in 1..Len(SplitLines(text)) : HoldsLineComment(SplitLines(text)[k], token)

StrayAfterLinePairs ==
    \/ HoldsAnyLineComment(stages[2], DefaultPatterns.singleLineStart)
    \/ HoldsAnyLineComment(stages[2], DefaultPatterns.singleLineEnd)

\* C29 as claimed: with the default tokens, a line that still holds a line
\* comment of BUILD_REMOVE_START or BUILD_REMOVE_END after the LinePair pass
\* is deleted in full by the LineMarker pass: what that pass leaves is lines
\* of its input, none of them holding such a comment.  And no line of what
\* the plugin gives back (the text itself when null is returned) holds
\* "//", optional spaces and BUILD_REMOVE.
StrayMarkersDeleted ==
    (calls >= 1 /\ config.patterns = DefaultPatterns /\ gate = "true"
       /\ Len(stages) = 4) =>
        /\ StrayAfterLinePairs =>
             /\ Among(SegmentsFrom(stages[3], 1), SegmentsFrom(stages[2], 1))
             /\ ~HoldsAnyLineComment(stages[3], DefaultPatterns.singleLineStart)
             /\ ~HoldsAnyLineComment(stages[3], DefaultPatterns.singleLineEnd)
        /\ ~HoldsAnyLineComment(IF Rewrote THEN result.code ELSE code,
                                DefaultPatterns.singleLine)

NonEmptyLines(text) == SelectSeq(SplitLines(text), LAMBDA line : line # <<>>)

\* what the LineMarker pass does do with the default tokens: the text of
\* every line holding such a comment goes, the line's newline stays
StrayMarkerTextDeleted ==
    (calls >= 1 /\ config.patterns = DefaultPatterns /\ gate = "true"
       /\ Len(stages) = 4) =>
        /\ Among(NonEmptyLines(stages[3]), SplitLines(stages[2]))
        /\ ~HoldsAnyLineComment(stages[3], DefaultPatterns.singleLineStart)
        /\ ~HoldsAnyLineComment(stages[3], DefaultPatterns.singleLineEnd)
        /\ ~HoldsAnyLineComment(IF Rewrote THEN result.code ELSE code,
                                DefaultPatterns.singleLine)

\* C30: every one of the eleven marker tokens of the settings is non-empty,
\* whatever configure commands have run and however their dialogs were
\* answered.
TokensStayNonEmpty ==
    \A k \in 1..Len(Markers(settings)) : Markers(settings)[k] # <<>>

\* C30 witness: a configure command stored an entered start token of a
\* family while the family's end token is the one it was
StartEnteredEndLeft ==
    /\ issued.command = "configure"
    /\ settings.productionOnlyStart = <<"Z">>
    /\ settings.productionOnlyEnd = DefaultSettings.productionOnlyEnd
    /\ settings.singleLineMarker = <<SP>>
====
